---- MODULE Spec2Model ----
(***************************************************************************)
(* Model of the stateful TCP connection tracker of                         *)
(* src/TCP_Analyzer/tcp_analyzer.cpp: the capture loop of main(), the      *)
(* flow-key canonicalisation make_canonical_id(), the global               *)
(* connection_tracker map and the state machine process_tcp_packet().      *)
(*                                                                         *)
(* Multi-byte header fields are kept as the bytes that are on the wire;    *)
(* the model loads them the way the code does on a little-endian Linux     *)
(* host (a raw load for addresses, a raw load followed by ntohs for        *)
(* ports, EtherType and total length).                                     *)
(***************************************************************************)
EXTENDS Integers, Sequences, FiniteSets, TLC

VARIABLES
    connection_tracker, \* std::map<ConnectionID, TcpState>
    prev_tracker,       \* history: connection_tracker before the last loop iteration
    pkt,                \* history: the frame the last loop iteration received
    event,              \* the line the last loop iteration printed, as a transition event
    executed,           \* the rule bodies the last loop iteration ran, in order
    loop_pc,            \* where main() is: "recv" at the head of the capture loop
    outcome,            \* the path the last loop iteration took through the loop body
    removedBy,          \* history: per flow, the event that last left it erased
    script_pc,          \* scripted traffic: number of script packets already sent
    script_conn,        \* scripted traffic: <<initiator, responder>> endpoints
    script_log,         \* scripted traffic: events printed so far, in order
    canon_in,           \* canonicaliser harness: <<ip1, port1, ip2, port2>>
    canon_out,          \* canonicaliser harness: results for (1,2) and (2,1)
    flows,              \* two-flow traffic: per flow, the flags of its packets in order
    delivered,          \* two-flow traffic: the flows of the packets captured so far
    file_peers_map,     \* tracker.cpp: std::map<std::string, std::vector<PeerInfo>>
    p2p_request,        \* tracker.cpp: the command handle_client received last
    p2p_response,       \* tracker.cpp: the response handle_client sent last
    ftp_dir,            \* FTP server: server_files/ as a map from filename to file
    ftp_files,          \* FTP server: the contents of the files, linked or still open
    ftp_thread,         \* FTP server: per client thread, its position in handle_upload
    ftp_reply,          \* FTP server: per client, the response line sent last
    g_bitfield,         \* peer.cpp: std::vector<bool>, one bit per piece
    downloader,         \* peer.cpp: the downloader thread's position and locals
    dl_event,           \* peer.cpp: what the downloader thread's last step did
    peer_server,        \* peer.cpp: the peer in the server role and its connection thread
    c2s,                \* peer.cpp: messages sent by the client role, not yet read
    s2c,                \* peer.cpp: messages sent by the server role, not yet read
    g_clients,          \* epoll_server.cpp: std::map<int, ClientInfo>
    chat_socks,         \* epoll_server.cpp: open client sockets, fd -> connection
    chat_epoll,         \* epoll_server.cpp: the client fds registered with epoll
    chat_sent,          \* epoll_server.cpp: the send calls of the last handler, in order
    chat_hist           \* epoll_server.cpp: history of connections and leave notices

vars == <<connection_tracker, prev_tracker, pkt, event, executed, loop_pc, outcome, removedBy,
          script_pc, script_conn, script_log, canon_in, canon_out, flows, delivered,
          file_peers_map, p2p_request, p2p_response,
          ftp_dir, ftp_files, ftp_thread, ftp_reply, g_bitfield, downloader, dl_event,
          peer_server, c2s, s2c, g_clients, chat_socks, chat_epoll, chat_sent, chat_hist>>

tracker_vars == <<connection_tracker, prev_tracker, pkt, event, executed, loop_pc, outcome,
                  removedBy>>
script_vars == <<script_pc, script_conn, script_log>>
canon_vars == <<canon_in, canon_out>>
order_vars == <<flows, delivered>>
p2p_vars == <<file_peers_map, p2p_request, p2p_response>>
ftp_vars == <<ftp_dir, ftp_files, ftp_thread, ftp_reply>>
peer_vars == <<g_bitfield, downloader, dl_event>>
sess_vars == <<peer_server, c2s, s2c>>
chat_vars == <<g_clients, chat_socks, chat_epoll, chat_sent, chat_hist>>

----------------------------------------------------------------------------
(* Program constants *)

ETH_HLEN == 14
ETH_P_IP == 2048
IPPROTO_TCP == 6

(* enum TcpState *)
CLOSED == "CLOSED"
SYN_SENT == "SYN_SENT"
SYN_RECEIVED == "SYN_RECEIVED"
ESTABLISHED == "ESTABLISHED"
FIN_WAIT_1 == "FIN_WAIT_1"
FIN_WAIT_2 == "FIN_WAIT_2"
CLOSE_WAIT == "CLOSE_WAIT"
LAST_ACK == "LAST_ACK"
TIME_WAIT == "TIME_WAIT"
CLOSING == "CLOSING"

TcpState == {CLOSED, SYN_SENT, SYN_RECEIVED, ESTABLISHED, FIN_WAIT_1,
             FIN_WAIT_2, CLOSE_WAIT, LAST_ACK, TIME_WAIT, CLOSING}

----------------------------------------------------------------------------
(* Integer loads.  A uint32_t is kept as its four base-256 digits, most     *)
(* significant first, and compared digit by digit; a uint16_t is a number.  *)

\* uint32_t x = ip->saddr on a little-endian host: the first wire byte is the
\* least significant digit.
LoadU32(bytes) == <<bytes[4], bytes[3], bytes[2], bytes[1]>>

\* uint16_t x = tcp->source on a little-endian host.
LoadU16(bytes) == bytes[1] + bytes[2] * 256

ntohs(v) == (v % 256) * 256 + (v \div 256)

\* Variant: the comparison is the other way round
U32Less_Greater(x, y) ==
    \E i \in 1..4 : y[i] < x[i] /\ \A j \in 1..(i - 1) : x[j] = y[j]

\* x < y on uint32_t
U32Less(x, y) ==
    \E i \in 1..4 : x[i] < y[i] /\ \A j \in 1..(i - 1) : x[j] = y[j]

----------------------------------------------------------------------------
(* make_canonical_id *)

ConnectionID(sip, sport, dip, dport) ==
    [src_ip |-> sip, dst_ip |-> dip, src_port |-> sport, dst_port |-> dport]

\* Variant: equal addresses are never reordered by port
make_canonical_id_NoPortSwap(ip1, port1, ip2, port2) ==
    IF U32Less(ip1, ip2) THEN ConnectionID(ip1, port1, ip2, port2)
    ELSE IF U32Less(ip2, ip1) THEN ConnectionID(ip2, port2, ip1, port1)
    ELSE ConnectionID(ip1, port1, ip2, port2)

\* Variant: the larger address comes first with the ports left where they were
make_canonical_id_PortsKept(ip1, port1, ip2, port2) ==
    IF U32Less(ip1, ip2) THEN ConnectionID(ip1, port1, ip2, port2)
    ELSE IF U32Less(ip2, ip1) THEN ConnectionID(ip2, port1, ip1, port2)
    ELSE IF port1 < port2 THEN ConnectionID(ip1, port1, ip2, port2)
    ELSE ConnectionID(ip2, port2, ip1, port1)

\* Variant: the key keeps the packet's direction
make_canonical_id_Directional(ip1, port1, ip2, port2) ==
    ConnectionID(ip1, port1, ip2, port2)

make_canonical_id(ip1, port1, ip2, port2) ==
    IF U32Less(ip1, ip2) THEN ConnectionID(ip1, port1, ip2, port2)
    ELSE IF U32Less(ip2, ip1) THEN ConnectionID(ip2, port2, ip1, port1)
    ELSE IF port1 < port2 THEN ConnectionID(ip1, port1, ip2, port2)
    ELSE ConnectionID(ip2, port2, ip1, port1)

----------------------------------------------------------------------------
(* std::map operations used on connection_tracker *)

\* Variant: a lookup that misses takes the state of some other entry
MapFind_AnyEntry(m, k) ==
    IF k \in DOMAIN m THEN m[k]
    ELSE IF DOMAIN m # {} THEN m[CHOOSE x \in DOMAIN m : TRUE]
    ELSE CLOSED

MapFind(m, k) == IF k \in DOMAIN m THEN m[k] ELSE CLOSED

MapErase(m, k) == [x \in (DOMAIN m) \ {k} |-> m[x]]

MapSet(m, k, v) == [x \in (DOMAIN m) \cup {k} |-> IF x = k THEN v ELSE m[x]]

EmptyMap == [x \in {} |-> CLOSED]

----------------------------------------------------------------------------
(* process_tcp_packet: the if-chain, one guard per rule, in source order *)

NoEvent == [reason |-> "None", from |-> "-", to |-> "-"]
Event(reason, from, to) == [reason |-> reason, from |-> from, to |-> to]

\* Variants of single rules
RuleRst_NotWithSyn(cur, tcp, data_len) == tcp.rst /\ ~tcp.syn
RuleHandshakeAck_Established(cur, tcp, data_len) ==
    cur \in {SYN_SENT, ESTABLISHED} /\ tcp.ack /\ ~tcp.syn /\ ~tcp.fin
RuleHandshakeAck_MidStream(cur, tcp, data_len) ==
    cur \in {CLOSED, SYN_SENT} /\ tcp.ack /\ ~tcp.syn /\ ~tcp.fin
RuleData_AnyLength(cur, tcp, data_len) == cur = ESTABLISHED
RuleFinAcked_AnyAck(cur, tcp, data_len) == cur = FIN_WAIT_1 /\ tcp.ack

RuleTimeWaitAck_AnyFlag(cur, tcp, data_len) == cur = TIME_WAIT
RuleFin_OnlyWithAck(cur, tcp, data_len) == cur = ESTABLISHED /\ tcp.fin /\ tcp.ack
RuleSyn_WithAck(cur, tcp, data_len) == cur = CLOSED /\ tcp.syn
RuleSyn_AnyState(cur, tcp, data_len) == tcp.syn /\ ~tcp.ack
RuleSynAck_AnyState(cur, tcp, data_len) == tcp.syn /\ tcp.ack
RuleClosingAck_AnyFlag(cur, tcp, data_len) == cur = CLOSING
RuleData_NotWithFin(cur, tcp, data_len) == cur = ESTABLISHED /\ data_len > 0 /\ ~tcp.fin
RuleSimultaneousFin_OnlyBareFin(cur, tcp, data_len) == cur = FIN_WAIT_1 /\ tcp.fin /\ ~tcp.ack

RuleRst(cur, tcp, data_len) == tcp.rst
RuleSyn(cur, tcp, data_len) == cur = CLOSED /\ tcp.syn /\ ~tcp.ack
RuleSynAck(cur, tcp, data_len) == cur = SYN_SENT /\ tcp.syn /\ tcp.ack
RuleHandshakeAck(cur, tcp, data_len) ==
    cur = SYN_SENT /\ tcp.ack /\ ~tcp.syn /\ ~tcp.fin
RuleData(cur, tcp, data_len) == cur = ESTABLISHED /\ data_len > 0
RuleFin(cur, tcp, data_len) == cur = ESTABLISHED /\ tcp.fin
RuleFinAcked(cur, tcp, data_len) == cur = FIN_WAIT_1 /\ tcp.ack /\ ~tcp.fin
RuleSimultaneousFin(cur, tcp, data_len) == cur = FIN_WAIT_1 /\ tcp.fin
RulePeerFin(cur, tcp, data_len) == cur = FIN_WAIT_2 /\ tcp.fin
RuleTimeWaitAck(cur, tcp, data_len) == cur = TIME_WAIT /\ tcp.ack
RuleClosingAck(cur, tcp, data_len) == cur = CLOSING /\ tcp.ack
RulePassiveFin(cur, tcp, data_len) == cur = ESTABLISHED /\ tcp.fin
RuleCloseWaitFin(cur, tcp, data_len) == cur = CLOSE_WAIT /\ tcp.fin
RuleLastAck(cur, tcp, data_len) == cur = LAST_ACK /\ tcp.ack

\* What a matched rule does to the map: erase(key), operator[]= or nothing.
\* Variant: the entry is set to CLOSED instead of being erased
Erase_KeepClosed(reason, cur) ==
    [op |-> "set", to |-> CLOSED, event |-> Event(reason, cur, CLOSED)]
Erase(reason, cur) == [op |-> "erase", to |-> CLOSED, event |-> Event(reason, cur, CLOSED)]
Assign(reason, cur, to) == [op |-> "set", to |-> to, event |-> Event(reason, cur, to)]
Report(reason, cur) == [op |-> "none", to |-> cur, event |-> Event(reason, cur, cur)]
FallThrough(cur) == [op |-> "none", to |-> cur, event |-> NoEvent]

\* Variant: the body of the FIN rule of an Established flow does not return
RuleReturns_FinFallsThrough(i) == i # 6
\* The body of the i-th rule ends in return: no rule below it is looked at
RuleReturns(i) == TRUE

\* The i-th rule of the chain: when its guard holds its body runs, and the rest
\* of the chain runs when the guard fails or the body does not return
Run(i, matched, body, rest) ==
    IF ~matched THEN rest
    ELSE IF RuleReturns(i) THEN <<body>>
    ELSE <<body>> \o rest

\* The rule bodies one call runs, in order.  current_state is read once, before
\* the chain, so every guard sees the state the flow had when the call began.
Transition(cur, tcp, data_len) ==
    Run(1, RuleRst(cur, tcp, data_len), Erase("Rst", cur),
    Run(2, RuleSyn(cur, tcp, data_len), Assign("Syn", cur, SYN_SENT),
    Run(3, RuleSynAck(cur, tcp, data_len), Assign("SynAck", cur, ESTABLISHED),
    Run(4, RuleHandshakeAck(cur, tcp, data_len), Assign("Ack", cur, ESTABLISHED),
    Run(5, RuleData(cur, tcp, data_len), Report("Data", cur),
    Run(6, RuleFin(cur, tcp, data_len), Assign("Fin", cur, FIN_WAIT_1),
    Run(7, RuleFinAcked(cur, tcp, data_len), Assign("Ack", cur, FIN_WAIT_2),
    Run(8, RuleSimultaneousFin(cur, tcp, data_len), Assign("Fin", cur, CLOSING),
    Run(9, RulePeerFin(cur, tcp, data_len), Assign("Fin", cur, TIME_WAIT),
    Run(10, RuleTimeWaitAck(cur, tcp, data_len), Erase("Ack", cur),
    Run(11, RuleClosingAck(cur, tcp, data_len), Erase("Ack", cur),
    Run(12, RulePassiveFin(cur, tcp, data_len), Assign("Fin", cur, CLOSE_WAIT),
    Run(13, RuleCloseWaitFin(cur, tcp, data_len), Assign("Fin", cur, LAST_ACK),
    Run(14, RuleLastAck(cur, tcp, data_len), Erase("Ack", cur),
    <<>>))))))))))))))

\* Variant: erase empties the whole map
ApplyToMap_ClearAll(m, key, res) ==
    IF res.op = "erase" THEN EmptyMap
    ELSE IF res.op = "set" THEN MapSet(m, key, res.to)
    ELSE m

ApplyToMap(m, key, res) ==
    IF res.op = "erase" THEN MapErase(m, key)
    ELSE IF res.op = "set" THEN MapSet(m, key, res.to)
    ELSE m

\* process_tcp_packet(key, tcp, ..., data_len) on map m: the map afterwards, the
\* rule bodies that ran and the event printed last.
RECURSIVE ApplyAll(_, _, _)
ApplyAll(m, key, ran) ==
    IF ran = <<>> THEN m
    ELSE ApplyAll(ApplyToMap(m, key, Head(ran)), key, Tail(ran))

process_tcp_packet(m, key, tcp, data_len) ==
    LET current_state == MapFind(m, key)
        ran == Transition(current_state, tcp, data_len)
        last == IF ran = <<>> THEN FallThrough(current_state) ELSE ran[Len(ran)]
    IN  [tracker |-> ApplyAll(m, key, ran), event |-> last.event, op |-> last.op,
         ran |-> ran]

----------------------------------------------------------------------------
(* Frames: the bytes recv() leaves in buffer[], by header field *)

\* Smallest IPv4 / TCP header length, in 4-byte words
MinHdrWords == 5
\* Largest ihl / doff value the decoder harness declares
MaxHdrWords == 6
\* Largest TCP payload of a well-formed frame
MaxPayload == 1

U16Bytes(n) == <<n \div 256, n % 256>>

AllFlags == [syn : BOOLEAN, ack : BOOLEAN, fin : BOOLEAN, rst : BOOLEAN]

Flags(syn, ack, fin, rst) == [syn |-> syn, ack |-> ack, fin |-> fin, rst |-> rst]

Endpoint(ip, port) == [ip |-> ip, port |-> U16Bytes(port)]

Client == Endpoint(<<192, 168, 1, 100>>, 8080)
Server1 == Endpoint(<<10, 0, 0, 1>>, 80)
Server2 == Endpoint(<<10, 0, 0, 2>>, 80)

\* <<source endpoint, destination endpoint>> of the captured traffic: two
\* connections of one client, each seen in both directions
Directions == {<<Client, Server1>>, <<Server1, Client>>,
               <<Client, Server2>>, <<Server2, Client>>}

MkFrame(size, ihl, doff, tot, src, dst, fl) ==
    [packet_size |-> size,
     h_proto |-> U16Bytes(ETH_P_IP),
     protocol |-> IPPROTO_TCP,
     ihl |-> ihl,
     tot_len |-> U16Bytes(tot),
     saddr |-> src.ip, daddr |-> dst.ip,
     source |-> src.port, dest |-> dst.port,
     doff |-> doff,
     tcp |-> fl]

\* A frame whose lengths agree: minimal headers, tot_len covers headers and payload,
\* and the whole frame was received.
WellFormed(payload, src, dst, fl) ==
    MkFrame(ETH_HLEN + 4 * (MinHdrWords + MinHdrWords) + payload,
            MinHdrWords, MinHdrWords,
            4 * (MinHdrWords + MinHdrWords) + payload, src, dst, fl)

TcpFrames ==
    {WellFormed(p, d[1], d[2], fl) : p \in 0..MaxPayload, d \in Directions, fl \in AllFlags}

\* Frames that are not IPv4 (ARP, EtherType 0x0806) or not TCP (UDP, protocol 17);
\* the rest of the buffer looks like a SYN or a RST of a tracked connection.
OtherFrames ==
    LET base == {WellFormed(0, Client, Server1, Flags(s, FALSE, FALSE, ~s)) : s \in BOOLEAN}
    IN  {[f EXCEPT !.h_proto = U16Bytes(2054)] : f \in base}
        \cup {[f EXCEPT !.protocol = 17] : f \in base}

\* pkt when recv() returned -1: nothing was received
NoFrame == [packet_size |-> -1]

----------------------------------------------------------------------------
(* main(): one iteration of the while (true) capture loop, by the path taken *)

\* Values main() computes from the buffer before calling process_tcp_packet
ip_header_len(f) == f.ihl * 4
tcp_header_len(f) == f.doff * 4
ip_total_len(f) == ntohs(LoadU16(f.tot_len))
tcp_data_len(f) == ip_total_len(f) - ip_header_len(f) - tcp_header_len(f)

KeyOf(f) ==
    make_canonical_id(LoadU32(f.saddr), ntohs(LoadU16(f.source)),
                      LoadU32(f.daddr), ntohs(LoadU16(f.dest)))

IsIPv4(f) == ntohs(LoadU16(f.h_proto)) = ETH_P_IP
\* Variant: UDP passes the protocol test as well
IsTcp_AlsoUdp(f) == f.protocol \in {IPPROTO_TCP, 17}
IsTcp(f) == f.protocol = IPPROTO_TCP

\* History of removals: the reason of the erase that last removed the flow's
\* entry, forgotten when the flow gets an entry again.  An erase of an absent key
\* removes nothing and is not recorded.
NoteRemoval(h, m, key, r) ==
    IF r.op = "erase" /\ key \in DOMAIN m THEN MapSet(h, key, r.event.reason)
    ELSE IF r.op = "set" THEN MapErase(h, key)
    ELSE h

\* Variant: a failed recv() leaves the loop
AfterIteration_BreakOnError(path) == IF path = "recv_failed" THEN "exit" ELSE "recv"
\* Where control goes when an iteration ends: the three continue statements and
\* the end of the loop body all lead back to recv()
AfterIteration(path) == "recv"

Untouched(f, path) ==
    /\ loop_pc = "recv"
    /\ connection_tracker' = connection_tracker
    /\ prev_tracker' = connection_tracker
    /\ pkt' = f
    /\ event' = NoEvent
    /\ executed' = <<>>
    /\ outcome' = path
    /\ loop_pc' = AfterIteration(path)
    /\ removedBy' = removedBy

\* recv() < 0: perror and continue
RecvFailed == Untouched(NoFrame, "recv_failed")

\* EtherType is not 0x0800: continue
SkipNonIPv4(f) ==
    /\ f.packet_size >= 0
    /\ ~IsIPv4(f)
    /\ Untouched(f, "skip_non_ipv4")

\* IPv4 protocol is not 6: continue
SkipNonTcp(f) ==
    /\ f.packet_size >= 0
    /\ IsIPv4(f)
    /\ ~IsTcp(f)
    /\ Untouched(f, "skip_non_tcp")

\* Everything else is handed to process_tcp_packet; packet_size is not looked at again.
ProcessFrame(f) ==
    /\ loop_pc = "recv"
    /\ f.packet_size >= 0
    /\ IsIPv4(f)
    /\ IsTcp(f)
    /\ \E key \in {KeyOf(f)} :
         \E r \in {process_tcp_packet(connection_tracker, key, f.tcp, tcp_data_len(f))} :
            /\ connection_tracker' = r.tracker
            /\ event' = r.event
            /\ executed' = r.ran
            /\ removedBy' = NoteRemoval(removedBy, connection_tracker, key, r)
    /\ prev_tracker' = connection_tracker
    /\ pkt' = f
    /\ outcome' = "processed"
    /\ loop_pc' = AfterIteration("processed")

----------------------------------------------------------------------------
(* Specification of the tracker on live traffic *)

TrackerIdle ==
    /\ connection_tracker = EmptyMap
    /\ prev_tracker = EmptyMap
    /\ pkt = NoFrame
    /\ event = NoEvent
    /\ executed = <<>>
    /\ loop_pc = "recv"
    /\ outcome = "init"
    /\ removedBy = EmptyMap

ScriptIdle ==
    /\ script_pc = 0
    /\ script_conn = <<Client, Server1>>
    /\ script_log = <<>>

CanonIdle ==
    /\ canon_in = <<>>
    /\ canon_out = <<>>

OrderIdle ==
    /\ flows = <<>>
    /\ delivered = <<>>

P2pIdle ==
    /\ file_peers_map = <<>>
    /\ p2p_request = [from |-> [ip |-> "", port |-> <<>>], tokens |-> <<>>]
    /\ p2p_response = [status |-> "", peers |-> <<>>]

\* FTP server: the client threads main() has started, one per connection
FtpClients == {1, 2}

\* a client thread waiting in handle_client for the next command line
ThreadAtCommand(result) ==
    [pc |-> "command", filename |-> <<>>, file_size |-> 0, total_received |-> 0,
     out_file |-> 0, result |-> result]

FtpIdle ==
    /\ ftp_dir = <<>>
    /\ ftp_files = <<>>
    /\ ftp_thread = [c \in FtpClients |-> ThreadAtCommand("")]
    /\ ftp_reply = [c \in FtpClients |-> ""]

\* peer.cpp: number of pieces of the shared file (g_num_pieces)
g_num_pieces == 3

Pieces == 0 .. (g_num_pieces - 1)

DownloaderAt(pc) ==
    [pc |-> pc, peer_bitfield |-> [i \in Pieces |-> FALSE], needed_pieces |-> <<>>,
     next |-> 1, piece_index |-> 0]

NoDlEvent ==
    [op |-> "", piece_index |-> 0, received_piece_index |-> 0, received_full |-> FALSE,
     written |-> FALSE]

PeerIdle ==
    /\ g_bitfield = [i \in Pieces |-> FALSE]
    /\ downloader = DownloaderAt("none")
    /\ dl_event = NoDlEvent

\* no peer session is open
SessIdle ==
    /\ peer_server = [pc |-> "none", g_file_id |-> "", g_bitfield |-> [i \in Pieces |-> FALSE]]
    /\ c2s = <<>>
    /\ s2c = <<>>

\* the chat server before its first event
ChatIdle ==
    /\ g_clients = <<>>
    /\ chat_socks = <<>>
    /\ chat_epoll = {}
    /\ chat_sent = <<>>
    /\ chat_hist = [op |-> "", conns |-> 0, log |-> <<>>, left |-> <<>>]

Init == TrackerIdle /\ ScriptIdle /\ CanonIdle /\ OrderIdle /\ P2pIdle /\ FtpIdle /\ PeerIdle /\ SessIdle /\ ChatIdle

\* Traffic on the interface
LiveFrames == TcpFrames \cup OtherFrames

HarnessIdle == UNCHANGED <<script_vars, canon_vars, order_vars, p2p_vars, ftp_vars, peer_vars, sess_vars, chat_vars>>

Next ==
    \/ RecvFailed /\ HarnessIdle
    \/ \E f \in LiveFrames : SkipNonIPv4(f) /\ HarnessIdle
    \/ \E f \in LiveFrames : SkipNonTcp(f) /\ HarnessIdle
    \/ \E f \in LiveFrames : ProcessFrame(f) /\ HarnessIdle

Spec == Init /\ [][Next]_vars

----------------------------------------------------------------------------
(* process_tcp_packet over every map content: the map starts with any of   *)
(* the nine states a value of the map can hold, for any of the flows, and  *)
(* the capture loop runs on the same traffic.                               *)

StoredStates == TcpState \ {CLOSED}

FlowKeys == {KeyOf(f) : f \in TcpFrames}

AnyTracker == UNION {[D -> StoredStates] : D \in SUBSET FlowKeys}

InitFsm ==
    /\ connection_tracker \in AnyTracker
    /\ prev_tracker = connection_tracker
    /\ pkt = NoFrame
    /\ event = NoEvent
    /\ executed = <<>>
    /\ loop_pc = "recv"
    /\ outcome = "init"
    /\ removedBy = EmptyMap
    /\ ScriptIdle /\ CanonIdle /\ OrderIdle /\ P2pIdle /\ FtpIdle /\ PeerIdle /\ SessIdle /\ ChatIdle

SpecFsm == InitFsm /\ [][Next]_vars

----------------------------------------------------------------------------
(* The capture loop on frames whose lengths disagree: buffer[] holds       *)
(* whatever the declared header lengths make the code read, whether or not *)
(* recv() delivered that many bytes.                                        *)

PacketSizes == {40, 58}
TotLens == {40, 44, 48}
DecodeFlags ==
    {Flags(TRUE, FALSE, FALSE, FALSE), Flags(TRUE, TRUE, FALSE, FALSE),
     Flags(FALSE, TRUE, FALSE, FALSE), Flags(FALSE, TRUE, TRUE, FALSE),
     Flags(FALSE, FALSE, FALSE, TRUE)}

DecodeFrames ==
    {MkFrame(size, ihl, doff, tot, d[1], d[2], fl) :
        size \in PacketSizes, ihl \in MinHdrWords..MaxHdrWords,
        doff \in MinHdrWords..MaxHdrWords, tot \in TotLens,
        d \in {<<Client, Server1>>, <<Server1, Client>>}, fl \in DecodeFlags}
    \cup OtherFrames

NextDecode ==
    \/ RecvFailed /\ HarnessIdle
    \/ \E f \in DecodeFrames : SkipNonIPv4(f) /\ HarnessIdle
    \/ \E f \in DecodeFrames : SkipNonTcp(f) /\ HarnessIdle
    \/ \E f \in DecodeFrames : ProcessFrame(f) /\ HarnessIdle

SpecDecode == Init /\ [][NextDecode]_vars

----------------------------------------------------------------------------
(* Scripted traffic: the seven control packets of one connection, opened   *)
(* and closed by the initiator, in order; frames of other protocols and    *)
(* failed receives may come in between.                                     *)

ScriptEndpoints == {Client, Server1, Server2, Endpoint(<<10, 0, 0, 1>>, 8080)}

\* The script: who sends (TRUE: the initiator) and the flags; a FIN segment may
\* carry an ACK (a) or not.
ScriptSteps(a) ==
    << <<TRUE, Flags(TRUE, FALSE, FALSE, FALSE)>>,
       <<FALSE, Flags(TRUE, TRUE, FALSE, FALSE)>>,
       <<TRUE, Flags(FALSE, TRUE, FALSE, FALSE)>>,
       <<TRUE, Flags(FALSE, a, TRUE, FALSE)>>,
       <<FALSE, Flags(FALSE, TRUE, FALSE, FALSE)>>,
       <<FALSE, Flags(FALSE, a, TRUE, FALSE)>>,
       <<TRUE, Flags(FALSE, TRUE, FALSE, FALSE)>> >>

ScriptLen == Len(ScriptSteps(TRUE))

\* The k-th packet of the script: <<sender, receiver, flags>>
ScriptPacket(k, conn, a) ==
    LET step == ScriptSteps(a)[k]
    IN  IF step[1] THEN <<conn[1], conn[2], step[2]>>
        ELSE <<conn[2], conn[1], step[2]>>

ScriptKey == KeyOf(WellFormed(0, script_conn[1], script_conn[2], Flags(TRUE, FALSE, FALSE, FALSE)))

ScriptSend ==
    /\ script_pc < ScriptLen
    /\ \E a \in BOOLEAN :
         LET p == ScriptPacket(script_pc + 1, script_conn, a)
         IN  ProcessFrame(WellFormed(0, p[1], p[2], p[3]))
    /\ script_pc' = script_pc + 1
    /\ script_log' = IF event' = NoEvent THEN script_log
                     ELSE Append(script_log, event'.reason)
    /\ UNCHANGED <<script_conn, canon_vars, order_vars, p2p_vars, ftp_vars, peer_vars, sess_vars, chat_vars>>

InitLifecycle ==
    /\ TrackerIdle
    /\ script_pc = 0
    /\ script_conn \in {c \in ScriptEndpoints \X ScriptEndpoints : c[1] # c[2]}
    /\ script_log = <<>>
    /\ CanonIdle /\ OrderIdle /\ P2pIdle /\ FtpIdle /\ PeerIdle /\ SessIdle /\ ChatIdle

NextLifecycle ==
    \/ ScriptSend
    \/ RecvFailed /\ HarnessIdle
    \/ \E f \in OtherFrames : SkipNonIPv4(f) /\ HarnessIdle
    \/ \E f \in OtherFrames : SkipNonTcp(f) /\ HarnessIdle

SpecLifecycle == InitLifecycle /\ [][NextLifecycle]_vars

----------------------------------------------------------------------------
(* Scripted traffic, simultaneous close: a connection is opened, both sides *)
(* send a FIN before seeing the other's, and one ACK follows.               *)

\* Who sends (TRUE: the initiator) and the flags; the first FIN may carry an ACK
\* (a), the second FIN may carry an ACK (b), the closing ACK may come from
\* either side (s).
CloseSteps(a, b, s) ==
    << <<TRUE, Flags(TRUE, FALSE, FALSE, FALSE)>>,
       <<FALSE, Flags(TRUE, TRUE, FALSE, FALSE)>>,
       <<TRUE, Flags(FALSE, a, TRUE, FALSE)>>,
       <<FALSE, Flags(FALSE, b, TRUE, FALSE)>>,
       <<s, Flags(FALSE, TRUE, FALSE, FALSE)>> >>

CloseLen == Len(CloseSteps(TRUE, TRUE, TRUE))

CloseSend ==
    /\ script_pc < CloseLen
    /\ \E a \in BOOLEAN, b \in BOOLEAN, s \in BOOLEAN :
         LET step == CloseSteps(a, b, s)[script_pc + 1]
             src == IF step[1] THEN script_conn[1] ELSE script_conn[2]
             dst == IF step[1] THEN script_conn[2] ELSE script_conn[1]
         IN  ProcessFrame(WellFormed(0, src, dst, step[2]))
    /\ script_pc' = script_pc + 1
    /\ script_log' = IF event' = NoEvent THEN script_log
                     ELSE Append(script_log, event'.to)
    /\ UNCHANGED <<script_conn, canon_vars, order_vars, p2p_vars, ftp_vars, peer_vars, sess_vars, chat_vars>>

NextClose ==
    \/ CloseSend
    \/ RecvFailed /\ HarnessIdle
    \/ \E f \in OtherFrames : SkipNonIPv4(f) /\ HarnessIdle
    \/ \E f \in OtherFrames : SkipNonTcp(f) /\ HarnessIdle

SpecClose == InitLifecycle /\ [][NextClose]_vars

----------------------------------------------------------------------------
(* make_canonical_id on its own: both argument orders of one endpoint pair *)

CanonIps == {LoadU32(<<10, 0, 0, 1>>), LoadU32(<<10, 0, 0, 2>>), LoadU32(<<192, 168, 1, 100>>)}
CanonPorts == {80, 443, 8080}

InitCanon ==
    /\ TrackerIdle /\ ScriptIdle /\ OrderIdle /\ P2pIdle /\ FtpIdle /\ PeerIdle /\ SessIdle /\ ChatIdle
    /\ canon_in \in CanonIps \X CanonPorts \X CanonIps \X CanonPorts
    /\ canon_out = <<>>

Canonicalize ==
    /\ canon_out = <<>>
    /\ canon_out' = <<make_canonical_id(canon_in[1], canon_in[2], canon_in[3], canon_in[4]),
                      make_canonical_id(canon_in[3], canon_in[4], canon_in[1], canon_in[2])>>
    /\ UNCHANGED <<canon_in, tracker_vars, script_vars, order_vars, p2p_vars, ftp_vars, peer_vars, sess_vars, chat_vars>>

NextCanon == Canonicalize

SpecCanon == InitCanon /\ [][NextCanon]_vars

----------------------------------------------------------------------------
(* Two connections at once: the packets of two flows, each flow's packets  *)
(* in its own order, captured in any interleaving.                          *)

\* Most packets one flow sends
MaxFlowLen == 2

OrderFlags ==
    {Flags(TRUE, FALSE, FALSE, FALSE), Flags(TRUE, TRUE, FALSE, FALSE),
     Flags(FALSE, TRUE, TRUE, FALSE), Flags(FALSE, FALSE, FALSE, TRUE)}

FlowSeqs == UNION {[1..n -> OrderFlags] : n \in 0..MaxFlowLen}

\* The directed endpoint pair the packets of each flow travel on
FlowPath == <<<<Client, Server1>>, <<Server2, Client>>>>

RECURSIVE CountOf(_, _)
CountOf(n, log) ==
    IF log = <<>> THEN 0
    ELSE (IF Head(log) = n THEN 1 ELSE 0) + CountOf(n, Tail(log))

FlowFrame(n, k) == WellFormed(0, FlowPath[n][1], FlowPath[n][2], flows[n][k])

\* The next packet of flow n is captured
Deliver(n) ==
    /\ CountOf(n, delivered) < Len(flows[n])
    /\ ProcessFrame(FlowFrame(n, CountOf(n, delivered) + 1))
    /\ delivered' = Append(delivered, n)
    /\ UNCHANGED <<flows, script_vars, canon_vars, p2p_vars, ftp_vars, peer_vars, sess_vars, chat_vars>>

InitOrder ==
    /\ TrackerIdle /\ ScriptIdle /\ CanonIdle /\ P2pIdle /\ FtpIdle /\ PeerIdle /\ SessIdle /\ ChatIdle
    /\ flows \in FlowSeqs \X FlowSeqs
    /\ delivered = <<>>

NextOrder ==
    \/ Deliver(1)
    \/ Deliver(2)

SpecOrder == InitOrder /\ [][NextOrder]_vars

----------------------------------------------------------------------------
(* src/BitTorrent/tracker.cpp: the peer lists of the P2P tracker.  A command *)
(* is the token vector split() returns, a number token being the sequence   *)
(* of its decimal digits; a response is its first word and, for PEERS, the  *)
(* ip:port entries in order.  The handlers hold map_mutex from the first    *)
(* use of file_peers_map to their return, so each is one step.              *)

PeerInfo(ip, port, bitfield) == [ip |-> ip, port |-> port, bitfield |-> bitfield]

\* std::atoi on a token of decimal digits
RECURSIVE atoi(_)
atoi(digits) ==
    IF digits = <<>> THEN 0
    ELSE atoi(SubSeq(digits, 1, Len(digits) - 1)) * 10 + digits[Len(digits)]

Reply(status, peers) == [status |-> status, peers |-> peers]

\* file_peers_map[file_id] after operator[] : an absent file gets an empty list
PeersOf(m, file_id) == IF file_id \in DOMAIN m THEN m[file_id] ELSE <<>>

PutPeers(m, file_id, peers) ==
    [f \in (DOMAIN m) \cup {file_id} |-> IF f = file_id THEN peers ELSE m[f]]

\* Variant: every REGISTER adds an entry
handle_register_AlwaysAppend(m, tokens, peer_ip) ==
    IF Len(tokens) < 4 THEN [map |-> m, response |-> Reply("ERROR Invalid REGISTER format", <<>>)]
    ELSE [map |-> PutPeers(m, tokens[2],
                    Append(PeersOf(m, tokens[2]), PeerInfo(peer_ip, atoi(tokens[3]), tokens[4]))),
          response |-> Reply("OK", <<>>)]

handle_register(m, tokens, peer_ip) ==
    IF Len(tokens) < 4 THEN [map |-> m, response |-> Reply("ERROR Invalid REGISTER format", <<>>)]
    ELSE LET file_id == tokens[2]
             listen_port == atoi(tokens[3])
             bitfield == tokens[4]
             peers == PeersOf(m, file_id)
             hits == {i \in 1..Len(peers) :
                         peers[i].ip = peer_ip /\ peers[i].port = listen_port}
             first == CHOOSE i \in hits : \A j \in hits : i <= j
         IN  [map |-> PutPeers(m, file_id,
                        IF hits # {} THEN [peers EXCEPT ![first].bitfield = bitfield]
                        ELSE Append(peers, PeerInfo(peer_ip, listen_port, bitfield))),
              response |-> Reply("OK", <<>>)]

handle_getpeers(m, tokens, peer_ip) ==
    IF Len(tokens) < 2 THEN [map |-> m, response |-> Reply("ERROR Invalid GETPEERS format", <<>>)]
    ELSE LET file_id == tokens[2]
             NotFromRequesterIp(peer) == peer.ip # peer_ip
             listed == IF file_id \in DOMAIN m THEN SelectSeq(m[file_id], NotFromRequesterIp)
                       ELSE <<>>
         IN  [map |-> m,
              response |-> Reply("PEERS", [i \in 1..Len(listed) |->
                                              [ip |-> listed[i].ip, port |-> listed[i].port]])]

handle_update(m, tokens, peer_ip) ==
    IF Len(tokens) < 3 THEN [map |-> m, response |-> Reply("ERROR Invalid UPDATE format", <<>>)]
    ELSE [map |-> m, response |-> Reply("OK", <<>>)]

\* handle_client: one command received, dispatched and answered
Dispatch(m, tokens, peer_ip) ==
    IF tokens[1] = "REGISTER" THEN handle_register(m, tokens, peer_ip)
    ELSE IF tokens[1] = "GETPEERS" THEN handle_getpeers(m, tokens, peer_ip)
    ELSE IF tokens[1] = "UPDATE" THEN handle_update(m, tokens, peer_ip)
    ELSE [map |-> m, response |-> Reply("ERROR Unknown command", <<>>)]

handle_client(p, tokens) ==
    /\ \E r \in {Dispatch(file_peers_map, tokens, p.ip)} :
          /\ file_peers_map' = r.map
          /\ p2p_response' = r.response
    /\ p2p_request' = [from |-> p, tokens |-> tokens]
    /\ UNCHANGED <<tracker_vars, script_vars, canon_vars, order_vars, ftp_vars, peer_vars, sess_vars, chat_vars>>

\* The peer processes: two on one host, as in the usage text of peer.cpp, and one
\* on another host; each connects from its ip and registers its listen port.
LocalSeed == [ip |-> "127.0.0.1", port |-> <<7, 0, 0, 1>>]
LocalDownloader == [ip |-> "127.0.0.1", port |-> <<7, 0, 0, 2>>]
RemoteSeed == [ip |-> "10.0.0.5", port |-> <<7, 0, 0, 1>>]
P2pPeers == {LocalSeed, LocalDownloader, RemoteSeed}
P2pFiles == {"myfile", "other"}
\* The bitfields a peer registers: a seed has every piece, a downloader starts
\* with none and may register again with all
P2pBitfields(p) == IF p = LocalDownloader THEN {"00", "ff"} ELSE {"ff"}
P2pOtherCommands ==
    {<<"REGISTER", "myfile">>, <<"GETPEERS">>, <<"UPDATE", "myfile">>, <<"QUIT">>}

InitP2p == TrackerIdle /\ ScriptIdle /\ CanonIdle /\ OrderIdle /\ P2pIdle /\ FtpIdle /\ PeerIdle /\ SessIdle /\ ChatIdle

NextP2p ==
    \/ \E p \in P2pPeers, f \in P2pFiles : \E b \in P2pBitfields(p) :
          handle_client(p, <<"REGISTER", f, p.port, b>>)
    \/ \E p \in P2pPeers, f \in P2pFiles : handle_client(p, <<"GETPEERS", f>>)
    \/ \E p \in P2pPeers, f \in P2pFiles : handle_client(p, <<"UPDATE", f, <<0>>>>)
    \/ \E p \in P2pPeers, t \in P2pOtherCommands : handle_client(p, t)

SpecP2p == InitP2p /\ [][NextP2p]_vars

----------------------------------------------------------------------------
(* Properties *)

\* The last processed packet: its flow, the flow's state before and after
LastKey == KeyOf(pkt)
LastCur == MapFind(prev_tracker, LastKey)
LastNow == MapFind(connection_tracker, LastKey)
HasPayload == tcp_data_len(pkt) > 0
BareAck == pkt.tcp = Flags(FALSE, TRUE, FALSE, FALSE)
Processed == outcome = "processed"

\* Every other flow's entry is as it was before the last packet
OthersKept ==
    /\ (DOMAIN connection_tracker) \ {LastKey} = (DOMAIN prev_tracker) \ {LastKey}
    /\ \A k \in (DOMAIN prev_tracker) \ {LastKey} : connection_tracker[k] = prev_tracker[k]

\* The transition table of the specification, first matching row: the next
\* state (CLOSED: entry removed) and the event; no row: state kept, no event.
SpecRow(st, fl, payload) ==
    CASE fl.rst -> [to |-> CLOSED, event |-> "Rst"]
      [] ~fl.rst /\ st = CLOSED /\ fl.syn /\ ~fl.ack -> [to |-> SYN_SENT, event |-> "Syn"]
      [] ~fl.rst /\ st = SYN_SENT /\ fl.syn /\ fl.ack -> [to |-> ESTABLISHED, event |-> "SynAck"]
      [] ~fl.rst /\ st = SYN_SENT /\ fl.ack /\ ~fl.syn /\ ~fl.fin ->
            [to |-> ESTABLISHED, event |-> "Ack"]
      [] ~fl.rst /\ st = ESTABLISHED /\ payload -> [to |-> ESTABLISHED, event |-> "Data"]
      [] ~fl.rst /\ st = ESTABLISHED /\ ~payload /\ fl.fin -> [to |-> FIN_WAIT_1, event |-> "Fin"]
      [] ~fl.rst /\ st = FIN_WAIT_1 /\ fl.ack /\ ~fl.fin -> [to |-> FIN_WAIT_2, event |-> "Ack"]
      [] ~fl.rst /\ st = FIN_WAIT_1 /\ fl.fin -> [to |-> CLOSING, event |-> "Fin"]
      [] ~fl.rst /\ st = FIN_WAIT_2 /\ fl.fin -> [to |-> TIME_WAIT, event |-> "Fin"]
      [] ~fl.rst /\ st = TIME_WAIT /\ fl.ack -> [to |-> CLOSED, event |-> "Ack"]
      [] ~fl.rst /\ st = CLOSING /\ fl.ack -> [to |-> CLOSED, event |-> "Ack"]
      [] ~fl.rst /\ st = CLOSE_WAIT /\ fl.fin -> [to |-> LAST_ACK, event |-> "Fin"]
      [] ~fl.rst /\ st = LAST_ACK /\ fl.ack -> [to |-> CLOSED, event |-> "Ack"]
      [] OTHER -> [to |-> st, event |-> "None"]

\* C1 (RST dominance): whatever the flow's state before (absent or any stored
\* state) and whatever the other flags and the payload, after a packet with rst
\* set the flow has no entry, the event is the reset of that state and nothing
\* else in the table has changed.
C1_RstDominance ==
    (Processed /\ pkt.tcp.rst) =>
        /\ LastKey \notin DOMAIN connection_tracker
        /\ event = Event("Rst", LastCur, CLOSED)
        /\ OthersKept

C1_Witness ==
    /\ Processed /\ pkt.tcp.rst /\ pkt.tcp.syn /\ pkt.tcp.fin /\ HasPayload
    /\ LastKey \in DOMAIN prev_tracker
    /\ prev_tracker[LastKey] = CLOSE_WAIT
    /\ LastKey \notin DOMAIN connection_tracker

\* C2 (canonicalisation symmetry): make_canonical_id of an endpoint pair and of
\* the swapped pair are the same key, in all four fields.
C2_CanonSymmetry ==
    canon_out # <<>> => canon_out[1] = canon_out[2]

C2_Witness ==
    /\ canon_out # <<>>
    /\ canon_in[1] = canon_in[3]
    /\ canon_in[2] > canon_in[4]
    /\ canon_out[1].src_port = canon_in[4]

\* C3 (happy path, final state): after the seven packets SYN, SYN/ACK, ACK, FIN,
\* ACK, FIN, ACK of one connection, sent in order into an empty table, the table
\* holds no entry.
C3_LifecycleEndsClosed ==
    script_pc = ScriptLen => DOMAIN connection_tracker = {}

C3_Witness ==
    /\ script_pc = ScriptLen
    /\ Processed
    /\ event = Event("Ack", TIME_WAIT, CLOSED)
    /\ ScriptKey \in DOMAIN removedBy

\* C4 as stated (happy path, events): the seven packets produce the seven events
\* Syn, SynAck, Ack, Fin, Ack, Fin, Ack.
C4_SevenEvents ==
    script_pc = ScriptLen =>
        script_log = <<"Syn", "SynAck", "Ack", "Fin", "Ack", "Fin", "Ack">>

\* C4 amended: the seven packets produce six events, Syn, SynAck, Fin, Ack, Fin,
\* Ack: the third packet, an ACK on an Established flow, matches no rule and
\* produces none.  After each packet the log is the matching prefix.
HappyEvents == <<"Syn", "SynAck", "Fin", "Ack", "Fin", "Ack">>
HappyCount(k) == IF k < 3 THEN k ELSE k - 1

C4_SixEvents ==
    script_log = SubSeq(HappyEvents, 1, HappyCount(script_pc))

C4_Witness ==
    /\ script_pc = ScriptLen
    /\ Len(script_log) = 6
    /\ script_log[3] = "Fin"

\* C5 (transition-table equivalence): for every state before (absent or stored),
\* all flags and payload zero or positive, the packet leaves the flow in the state
\* of the first matching row of the specification's table and prints that row's
\* event; when no row matches, the table is unchanged and nothing is printed.
C5_TableEquivalence ==
    Processed =>
        LET row == SpecRow(LastCur, pkt.tcp, HasPayload)
        IN  /\ LastNow = row.to
            /\ row.to = CLOSED => LastKey \notin DOMAIN connection_tracker
            /\ event.reason = row.event
            /\ row.event # "None" => event = Event(row.event, LastCur, row.to)
            /\ row.event = "None" => connection_tracker = prev_tracker /\ event = NoEvent
            /\ OthersKept

C5_Witness ==
    /\ Processed
    /\ LastCur = CLOSE_WAIT
    /\ pkt.tcp.fin /\ pkt.tcp.ack /\ HasPayload
    /\ LastNow = LAST_ACK

\* C6 (unmatched input is a no-op): a packet that matches no rule leaves the table
\* as it was and prints nothing, and so does the same packet when it comes again;
\* a bare ACK without payload on an Established flow is such a packet.
C6_UnmatchedNoOp ==
    /\ (Processed /\ SpecRow(LastCur, pkt.tcp, HasPayload).event = "None") =>
          /\ connection_tracker = prev_tracker
          /\ event = NoEvent
          /\ LET again == process_tcp_packet(connection_tracker, LastKey, pkt.tcp,
                                             tcp_data_len(pkt))
             IN  again.tracker = connection_tracker /\ again.event = NoEvent
    /\ (Processed /\ LastCur = ESTABLISHED /\ BareAck /\ ~HasPayload) =>
          LastNow = ESTABLISHED /\ event = NoEvent

C6_Witness ==
    /\ Processed /\ BareAck /\ ~HasPayload
    /\ LastCur = ESTABLISHED
    /\ LastNow = ESTABLISHED
    /\ event = NoEvent

\* C7: no key of the connection table is mapped to CLOSED; a closed flow has no key.
C7_NoClosedEntry ==
    \A k \in DOMAIN connection_tracker : connection_tracker[k] # CLOSED

C7_Witness ==
    /\ Processed
    /\ LastKey \in DOMAIN prev_tracker
    /\ LastKey \notin DOMAIN connection_tracker
    /\ DOMAIN connection_tracker # {}

\* C8 (idempotent removal): a RST, or a repeated closing ACK, for a flow that has
\* no entry leaves the table exactly as it was: no entry for the flow, every other
\* entry unchanged.
C8_IdempotentRemoval ==
    (Processed /\ LastKey \notin DOMAIN prev_tracker /\ (pkt.tcp.rst \/ BareAck)) =>
        connection_tracker = prev_tracker

C8_Witness ==
    /\ Processed /\ BareAck
    /\ LastKey \notin DOMAIN prev_tracker
    /\ LastKey \in DOMAIN removedBy
    /\ removedBy[LastKey] = "Ack"
    /\ DOMAIN prev_tracker # {}
    /\ connection_tracker = prev_tracker

\* C9 (truncated frame): an IPv4 TCP frame shorter than the Ethernet header plus
\* its declared IP header (ihl*4) plus its declared TCP header (doff*4) is a
\* decode error: it is not handed to the state machine and the table is unchanged.
Truncated(f) == f.packet_size < ETH_HLEN + ip_header_len(f) + tcp_header_len(f)

C9_TruncatedRejected ==
    (pkt.packet_size >= 0 /\ IsIPv4(pkt) /\ IsTcp(pkt) /\ Truncated(pkt)) =>
        outcome = "decode_error" /\ connection_tracker = prev_tracker

\* C10 (inconsistent length): an IPv4 TCP frame whose payload length
\* tot_len - ihl*4 - doff*4 is negative is a decode error: it is not handed to
\* the state machine and the table is unchanged.
C10_NegativeLengthRejected ==
    (pkt.packet_size >= 0 /\ IsIPv4(pkt) /\ IsTcp(pkt) /\ tcp_data_len(pkt) < 0) =>
        outcome = "decode_error" /\ connection_tracker = prev_tracker

\* C11 (handshake scenario): a SYN from 192.168.1.100:8080 to 10.0.0.1:80 followed
\* by a SYN+ACK from 10.0.0.1:80 to 192.168.1.100:8080 are both looked up under the
\* key {10.0.0.1:80, 192.168.1.100:8080}; after the first the table holds that key
\* alone, after the second that key is ESTABLISHED and the table holds nothing else.
HandshakeKey ==
    ConnectionID(LoadU32(<<10, 0, 0, 1>>), 80, LoadU32(<<192, 168, 1, 100>>), 8080)

C11_HandshakeKey ==
    script_conn = <<Client, Server1>> =>
        /\ (script_pc \in {1, 2} /\ Processed) => LastKey = HandshakeKey
        /\ script_pc = 1 => DOMAIN connection_tracker = {HandshakeKey}
        /\ script_pc = 2 => connection_tracker = [k \in {HandshakeKey} |-> ESTABLISHED]

C11_Witness ==
    /\ script_conn = <<Client, Server1>>
    /\ script_pc = 2
    /\ Processed
    /\ pkt.saddr = <<10, 0, 0, 1>> /\ pkt.tcp = Flags(TRUE, TRUE, FALSE, FALSE)
    /\ event = Event("SynAck", SYN_SENT, ESTABLISHED)
    /\ connection_tracker[HandshakeKey] = ESTABLISHED

\* C12 (canonical ordering): the key make_canonical_id returns has the smaller
\* endpoint first, by the number of the address and, for equal addresses, by the
\* number of the port; its (src_ip, src_port) and (dst_ip, dst_port) are the two
\* endpoints it was given, each address with its own port.
U32Value(x) == ((x[1] * 256 + x[2]) * 256 + x[3]) * 256 + x[4]

EndpointLeq(ip_a, port_a, ip_b, port_b) ==
    \/ U32Value(ip_a) < U32Value(ip_b)
    \/ U32Value(ip_a) = U32Value(ip_b) /\ port_a <= port_b

C12_CanonicalOrder ==
    canon_out # <<>> =>
        LET k == canon_out[1]
        IN  /\ EndpointLeq(k.src_ip, k.src_port, k.dst_ip, k.dst_port)
            /\ {<<k.src_ip, k.src_port>>, <<k.dst_ip, k.dst_port>>}
                   = {<<canon_in[1], canon_in[2]>>, <<canon_in[3], canon_in[4]>>}

C12_Witness ==
    /\ canon_out # <<>>
    /\ U32Value(canon_in[1]) > U32Value(canon_in[3])
    /\ canon_in[2] < canon_in[4]
    /\ canon_out[1] = ConnectionID(canon_in[3], canon_in[4], canon_in[1], canon_in[2])

\* C13 (direction independence): the packet just processed would have had the same
\* effect, the same table and the same event, had it travelled the other way
\* (source and destination swapped); and no two keys of the table have the same
\* unordered pair of endpoints.
Reversed(f) ==
    [f EXCEPT !.saddr = f.daddr, !.daddr = f.saddr, !.source = f.dest, !.dest = f.source]

EndpointsOf(k) == {<<k.src_ip, k.src_port>>, <<k.dst_ip, k.dst_port>>}

C13_DirectionIndependence ==
    /\ Processed =>
          LET back == process_tcp_packet(prev_tracker, KeyOf(Reversed(pkt)), pkt.tcp,
                                         tcp_data_len(pkt))
          IN  back.tracker = connection_tracker /\ back.event = event
    /\ \A k1, k2 \in DOMAIN connection_tracker :
          EndpointsOf(k1) = EndpointsOf(k2) => k1 = k2

C13_Witness ==
    /\ Processed
    /\ pkt.saddr = Server1.ip /\ pkt.daddr = Client.ip
    /\ LastCur = SYN_SENT /\ LastNow = ESTABLISHED
    /\ LastKey = HandshakeKey
    /\ Cardinality(DOMAIN connection_tracker) = 2

\* C14 (flow isolation): a processed packet leaves every entry of the table other
\* than its own flow's as it was: none inserted, none changed, none removed.
C14_FlowIsolation ==
    Processed =>
        \A k \in ((DOMAIN prev_tracker) \cup (DOMAIN connection_tracker)) \ {LastKey} :
            /\ k \in DOMAIN prev_tracker
            /\ k \in DOMAIN connection_tracker
            /\ connection_tracker[k] = prev_tracker[k]

C14_Witness ==
    /\ Processed
    /\ LastKey \in DOMAIN prev_tracker
    /\ LastKey \notin DOMAIN connection_tracker
    /\ \E k \in DOMAIN connection_tracker : prev_tracker[k] = FIN_WAIT_2

\* C15 (one mutation, one event): a processed packet runs at most one rule body,
\* so it makes at most one change to the table and prints at most one event; a
\* packet that changes its flow's state makes exactly one change (one insert, one
\* update or one erase) and prints exactly one event.
RECURSIVE Mutations(_)
Mutations(ran) ==
    IF ran = <<>> THEN 0
    ELSE (IF Head(ran).op = "none" THEN 0 ELSE 1) + Mutations(Tail(ran))

C15_OneMutationOneEvent ==
    Processed =>
        /\ Len(executed) <= 1
        /\ Mutations(executed) <= 1
        /\ LastNow # LastCur =>
              /\ Len(executed) = 1
              /\ Mutations(executed) = 1
              /\ event = executed[1].event /\ event # NoEvent

C15_Witness ==
    /\ Processed
    /\ LastCur = ESTABLISHED /\ pkt.tcp.fin /\ ~HasPayload
    /\ LastNow = FIN_WAIT_1
    /\ Len(executed) = 1 /\ Mutations(executed) = 1

\* C16 as stated: every packet handed to the state machine prints exactly one event.
C16_OneEventPerPacket ==
    Processed => Len(executed) = 1

\* C16 amended: a packet handed to the state machine prints exactly one event when
\* a row of the transition table matches it and none when no row does.
C16_EventIffRuleMatches ==
    Processed =>
        /\ Len(executed) = IF SpecRow(LastCur, pkt.tcp, HasPayload).event = "None"
                            THEN 0 ELSE 1
        /\ (event = NoEvent) <=> (executed = <<>>)

C16_Witness ==
    /\ Processed
    /\ LastCur = FIN_WAIT_2 /\ BareAck
    /\ executed = <<>> /\ event = NoEvent
    /\ connection_tracker = prev_tracker

\* C17 (other protocols are skipped): a frame whose EtherType is not 0x0800, or
\* whose IPv4 protocol is not 6, is not handed to process_tcp_packet: the table is
\* as before and no event is printed.
C17_NonTcpSkipped ==
    (pkt.packet_size >= 0 /\ (pkt.h_proto # <<8, 0>> \/ pkt.protocol # 6)) =>
        /\ outcome \in {"skip_non_ipv4", "skip_non_tcp"}
        /\ connection_tracker = prev_tracker
        /\ event = NoEvent /\ executed = <<>>

C17_Witness ==
    /\ outcome = "skip_non_tcp"
    /\ pkt.protocol = 17 /\ pkt.tcp.rst
    /\ KeyOf(pkt) \in DOMAIN connection_tracker

\* C18 (no frame is fatal): after a failed receive and after any frame, skipped,
\* malformed or valid, main() is back at recv(), and there every next receive is
\* taken: a failure, or a frame of any kind (another protocol, or a SYN with any
\* of the declared lengths), which goes down a path of the loop body.
NextFrames ==
    {f \in DecodeFrames : f.tcp.syn /\ ~f.tcp.ack /\ f.saddr = Client.ip}

C18_NoFrameFatal ==
    /\ loop_pc = "recv"
    /\ ENABLED RecvFailed
    /\ \A f \in NextFrames :
          ENABLED (SkipNonIPv4(f) \/ SkipNonTcp(f) \/ ProcessFrame(f))

C18_Witness ==
    /\ Processed
    /\ Truncated(pkt) /\ tcp_data_len(pkt) < 0
    /\ DOMAIN prev_tracker # {}
    /\ loop_pc = "recv"

\* C19 (cross-flow order independence): however the packets of two flows are
\* interleaved, each flow's packets in their own order, the table after them is
\* the table after the first flow's packets followed by the second flow's; within
\* one flow the order matters: SYN then SYN+ACK leaves the flow ESTABLISHED,
\* SYN+ACK then SYN leaves it SYN_SENT.
RECURSIVE Replay(_, _, _)
Replay(m, n, k) ==
    IF k = 0 THEN m
    ELSE LET f == FlowFrame(n, k)
         IN  process_tcp_packet(Replay(m, n, k - 1), KeyOf(f), f.tcp, tcp_data_len(f)).tracker

FlowKey(n) == KeyOf(WellFormed(0, FlowPath[n][1], FlowPath[n][2], Flags(TRUE, FALSE, FALSE, FALSE)))

SynFlags == Flags(TRUE, FALSE, FALSE, FALSE)
SynAckFlags == Flags(TRUE, TRUE, FALSE, FALSE)

AllDelivered == \A n \in {1, 2} : CountOf(n, delivered) = Len(flows[n])

C19_CrossFlowOrder ==
    /\ connection_tracker
          = Replay(Replay(EmptyMap, 1, CountOf(1, delivered)), 2, CountOf(2, delivered))
    /\ \A n \in {1, 2} :
          /\ (AllDelivered /\ flows[n] = <<SynFlags, SynAckFlags>>) =>
                MapFind(connection_tracker, FlowKey(n)) = ESTABLISHED
          /\ (AllDelivered /\ flows[n] = <<SynAckFlags, SynFlags>>) =>
                MapFind(connection_tracker, FlowKey(n)) = SYN_SENT

C19_Witness ==
    /\ AllDelivered
    /\ flows = << <<SynAckFlags, SynFlags>>, <<SynFlags, SynAckFlags>> >>
    /\ delivered = <<2, 1, 1, 2>>
    /\ connection_tracker[FlowKey(1)] = SYN_SENT
    /\ connection_tracker[FlowKey(2)] = ESTABLISHED

\* C20 (GETPEERS lists every other peer): the reply to GETPEERS for a file lists
\* every peer registered for the file except the requesting peer itself, the one
\* with the requester's ip and listen port.
RegisteredFor(file_id) ==
    LET peers == PeersOf(file_peers_map, file_id)
    IN  {[ip |-> peers[i].ip, port |-> peers[i].port] : i \in 1..Len(peers)}

ListedPeers == {p2p_response.peers[i] : i \in 1..Len(p2p_response.peers)}

C20_GetPeersListsOthers ==
    (Len(p2p_request.tokens) >= 2 /\ p2p_request.tokens[1] = "GETPEERS") =>
        ListedPeers = RegisteredFor(p2p_request.tokens[2])
                        \ {[ip |-> p2p_request.from.ip, port |-> atoi(p2p_request.from.port)]}

\* C22 (dead states): from an empty table no entry is ever SYN_RECEIVED, CLOSE_WAIT
\* or LAST_ACK; a FIN without payload on an ESTABLISHED flow leads to FIN_WAIT_1,
\* never to CLOSE_WAIT.
DeadStates == {SYN_RECEIVED, CLOSE_WAIT, LAST_ACK}

C22_DeadStates ==
    /\ \A k \in DOMAIN connection_tracker : connection_tracker[k] \notin DeadStates
    /\ (Processed /\ LastCur = ESTABLISHED /\ pkt.tcp.fin /\ ~pkt.tcp.rst /\ ~HasPayload) =>
          LastNow = FIN_WAIT_1

C22_Witness ==
    /\ Processed
    /\ LastCur = ESTABLISHED
    /\ pkt.tcp = Flags(FALSE, FALSE, TRUE, FALSE) /\ ~HasPayload
    /\ LastNow = FIN_WAIT_1
    /\ event = Event("Fin", ESTABLISHED, FIN_WAIT_1)

\* C23 (entry creation): a packet of a flow without an entry creates the entry,
\* in SYN_SENT, exactly when syn is set and ack and rst are clear; any other packet
\* leaves the flow without an entry.
C23_EntryCreation ==
    (Processed /\ LastKey \notin DOMAIN prev_tracker) =>
        IF pkt.tcp.syn /\ ~pkt.tcp.ack /\ ~pkt.tcp.rst
        THEN LastKey \in DOMAIN connection_tracker /\ connection_tracker[LastKey] = SYN_SENT
        ELSE LastKey \notin DOMAIN connection_tracker

C23_Witness ==
    /\ Processed
    /\ LastKey \notin DOMAIN prev_tracker
    /\ DOMAIN prev_tracker # {}
    /\ pkt.tcp = Flags(TRUE, FALSE, TRUE, FALSE) /\ HasPayload
    /\ connection_tracker[LastKey] = SYN_SENT

\* C24 (entry removal): an entry that was in the table before an iteration of the
\* capture loop and is not after it was removed by a packet of its own flow with
\* rst set, or with ack set while the flow was TIME_WAIT, CLOSING or LAST_ACK;
\* failed receives, skipped frames and every other packet leave it in the table.
C24_EntryRemoval ==
    \A k \in (DOMAIN prev_tracker) \ (DOMAIN connection_tracker) :
        /\ Processed
        /\ LastKey = k
        /\ \/ pkt.tcp.rst
           \/ pkt.tcp.ack /\ prev_tracker[k] \in {TIME_WAIT, CLOSING, LAST_ACK}

C24_Witness ==
    /\ Processed
    /\ LastCur = TIME_WAIT
    /\ pkt.tcp = Flags(TRUE, FALSE, TRUE, FALSE) /\ HasPayload
    /\ LastNow = TIME_WAIT

\* C25 (data rule precedence): on an ESTABLISHED flow a packet without rst and
\* with payload prints a Data event and leaves the table as it was, whatever its
\* other flags; a FIN with payload does not move the flow to FIN_WAIT_1.
C25_DataPrecedence ==
    (Processed /\ LastCur = ESTABLISHED /\ ~pkt.tcp.rst /\ HasPayload) =>
        /\ event = Event("Data", ESTABLISHED, ESTABLISHED)
        /\ connection_tracker = prev_tracker

C25_Witness ==
    /\ Processed
    /\ LastCur = ESTABLISHED
    /\ pkt.tcp = Flags(FALSE, TRUE, TRUE, FALSE) /\ HasPayload
    /\ LastNow = ESTABLISHED
    /\ event.reason = "Data"

\* C26 (simultaneous close): on an ESTABLISHED flow a FIN followed by a second
\* packet with fin set, each with or without ack, takes the flow through FIN_WAIT_1
\* to CLOSING, and the next packet with ack set removes the entry; the states the
\* flow is given on the way are SYN_SENT, ESTABLISHED, FIN_WAIT_1, CLOSING and
\* then none: never FIN_WAIT_2 or TIME_WAIT.
ClosePath == <<SYN_SENT, ESTABLISHED, FIN_WAIT_1, CLOSING, CLOSED>>

C26_SimultaneousClose ==
    /\ script_log = SubSeq(ClosePath, 1, script_pc)
    /\ script_pc > 0 => MapFind(connection_tracker, ScriptKey) = ClosePath[script_pc]
    /\ script_pc = CloseLen => DOMAIN connection_tracker = {}

C26_Witness ==
    /\ script_pc = CloseLen
    /\ Processed
    /\ event = Event("Ack", CLOSING, CLOSED)
    /\ script_log = ClosePath
    /\ ScriptKey \in DOMAIN removedBy

\* C27 (forward-only progress): from an empty table, whenever a packet changes the
\* state of an entry that stays in the table, the change is one of SYN_SENT ->
\* ESTABLISHED, ESTABLISHED -> FIN_WAIT_1, FIN_WAIT_1 -> FIN_WAIT_2, FIN_WAIT_1 ->
\* CLOSING, FIN_WAIT_2 -> TIME_WAIT, and every new entry starts in SYN_SENT; each
\* change raises the state's position on these paths, which starts at 1 and ends
\* at 5 at most, so an entry changes state at most four times.
Position(st) ==
    CASE st = SYN_SENT -> 1
      [] st = ESTABLISHED -> 2
      [] st = FIN_WAIT_1 -> 3
      [] st \in {FIN_WAIT_2, CLOSING} -> 4
      [] st = TIME_WAIT -> 5
      [] OTHER -> 0

ForwardSteps ==
    {<<SYN_SENT, ESTABLISHED>>, <<ESTABLISHED, FIN_WAIT_1>>, <<FIN_WAIT_1, FIN_WAIT_2>>,
     <<FIN_WAIT_1, CLOSING>>, <<FIN_WAIT_2, TIME_WAIT>>}

C27_ForwardOnly ==
    /\ \A e \in ForwardSteps : 1 <= Position(e[1]) /\ Position(e[1]) < Position(e[2])
                                  /\ Position(e[2]) <= 5
    /\ \A k \in DOMAIN connection_tracker :
          /\ Position(connection_tracker[k]) >= 1
          /\ k \notin DOMAIN prev_tracker => connection_tracker[k] = SYN_SENT
          /\ (k \in DOMAIN prev_tracker /\ prev_tracker[k] # connection_tracker[k]) =>
                <<prev_tracker[k], connection_tracker[k]>> \in ForwardSteps

C27_Witness ==
    /\ Processed
    /\ LastCur = FIN_WAIT_2 /\ LastNow = TIME_WAIT
    /\ \E k \in DOMAIN connection_tracker : k # LastKey /\ connection_tracker[k] = CLOSING

\* C28 (pure SYN): a packet with only syn set and no payload creates a SYN_SENT
\* entry for a flow that has none and changes nothing, and prints nothing, for a
\* flow that has an entry, whatever its state.
PureSyn == pkt.tcp = Flags(TRUE, FALSE, FALSE, FALSE) /\ ~HasPayload

C28_PureSyn ==
    (Processed /\ PureSyn) =>
        IF LastKey \in DOMAIN prev_tracker
        THEN connection_tracker = prev_tracker /\ event = NoEvent
        ELSE connection_tracker = MapSet(prev_tracker, LastKey, SYN_SENT)

C28_Witness ==
    /\ Processed /\ PureSyn
    /\ LastCur = TIME_WAIT
    /\ connection_tracker = prev_tracker
    /\ event = NoEvent

\* C29 (registration uniqueness): in every state, however the handlers of the
\* client threads interleave, a file's peer list has at most one entry per (ip,
\* port); a REGISTER step leaves every other file's list as it was, and either
\* replaces the bitfield of the entry with the sender's ip and port, every entry
\* keeping its place, or, when there is no such entry, appends one.
OneEntryPerPeer ==
    \A f \in DOMAIN file_peers_map :
        \A i, j \in 1..Len(file_peers_map[f]) :
            (file_peers_map[f][i].ip = file_peers_map[f][j].ip
               /\ file_peers_map[f][i].port = file_peers_map[f][j].port) => i = j

RegisterStep ==
    (Len(p2p_request'.tokens) = 4 /\ p2p_request'.tokens[1] = "REGISTER") =>
        LET f == p2p_request'.tokens[2]
            ip == p2p_request'.from.ip
            port == atoi(p2p_request'.tokens[3])
            bits == p2p_request'.tokens[4]
            old == PeersOf(file_peers_map, f)
            new == file_peers_map'[f]
            at == {i \in 1..Len(old) : old[i].ip = ip /\ old[i].port = port}
        IN  /\ DOMAIN file_peers_map' = (DOMAIN file_peers_map) \cup {f}
            /\ \A g \in (DOMAIN file_peers_map) \ {f} : file_peers_map'[g] = file_peers_map[g]
            /\ at # {} =>
                  /\ Len(new) = Len(old)
                  /\ \A i \in 1..Len(old) :
                        new[i] = IF i \in at THEN PeerInfo(ip, port, bits) ELSE old[i]
            /\ at = {} => new = Append(old, PeerInfo(ip, port, bits))

C29_RegistrationUniqueness == []OneEntryPerPeer /\ [][RegisterStep]_vars

C29_Witness ==
    /\ p2p_request = [from |-> LocalDownloader,
                       tokens |-> <<"REGISTER", "myfile", LocalDownloader.port, "ff">>]
    /\ Len(file_peers_map["myfile"]) = 3
    /\ file_peers_map["myfile"][1] = PeerInfo("127.0.0.1", 7002, "ff")
    /\ "other" \in DOMAIN file_peers_map
    /\ OneEntryPerPeer

----------------------------------------------------------------------------
\* FTP server (src/FTP/server.cpp): UPLOAD handled by one thread per client.
\* A filename is the sequence of its characters.  server_files/ is ftp_dir, a
\* map from filename to a file id; ftp_files maps the id of every file that is
\* linked in the directory or still open in a thread to its bytes.  A thread
\* runs handle_upload from one blocking socket call to the next in one step.

\* bound: the largest file size a client announces
MaxFileSize == 2

BUFFER_SIZE == 4096

FtpMin(a, b) == IF a < b THEN a ELSE b

FtpMax(a, b) == IF a < b THEN b ELSE a

\* the eight bytes of a uint64_t in memory order are reversed (little-endian host)
htonll(value) == [i \in 1..8 |-> value[9 - i]]

ntohll(value) == htonll(value)

\* the number held by eight bytes in the memory of a little-endian host
U64(mem) == mem[1] + 256 * mem[2] + 65536 * mem[3]

\* bytes on the wire for a size, as the client's htonll writes them
WireSize(n) == <<0, 0, 0, 0, 0, n \div 65536, (n \div 256) % 256, n % 256>>

\* filename.find("..") / find("/") / find("\\") != npos
InvalidFilename(filename) ==
    \/ \E i \in 1..Len(filename) : filename[i] \in {"/", "\\"}
    \/ \E i \in 1..(Len(filename) - 1) : filename[i] = "." /\ filename[i + 1] = "."

\* ifstream check_file(full_path); check_file.good()
FileExists(dir, filename) == filename \in DOMAIN dir

\* remove(full_path.c_str()): the name is unlinked, whichever file it names
\* Variant: the name stays in the directory
Remove_Keep(dir, filename) == dir

Remove(dir, filename) == [n \in DOMAIN dir \ {filename} |-> dir[n]]

\* an id no file uses
FreshFile(files) == CHOOSE id \in 1..(Cardinality(DOMAIN files) + 1) : id \notin DOMAIN files

\* ofstream out_file(full_path, ios::binary): the named file is truncated, or a
\* new empty file is created under that name; yields <<dir, files, id>>
OpenTrunc(dir, files, filename) ==
    IF filename \in DOMAIN dir
    THEN <<dir, [files EXCEPT ![dir[filename]] = <<>>], dir[filename]>>
    ELSE <<[n \in DOMAIN dir \cup {filename} |-> IF n = filename THEN FreshFile(files) ELSE dir[n]],
           [id \in DOMAIN files \cup {FreshFile(files)} |->
               IF id = FreshFile(files) THEN <<>> ELSE files[id]],
           FreshFile(files)>>

\* out_file.write(buffer, received) at the stream's own position; a gap left by
\* another stream's truncation reads as zero bytes
WriteAt(content, offset, received, byte) ==
    [i \in 1..FtpMax(Len(content), offset + received) |->
        IF i > offset /\ i <= offset + received THEN byte
        ELSE IF i <= Len(content) THEN content[i] ELSE 0]

\* a file with no name and no open stream is gone
Collect(dir, files, threads) ==
    [id \in {i \in DOMAIN files :
                \/ \E n \in DOMAIN dir : dir[n] = i
                \/ \E c \in FtpClients : threads[c].pc = "recv_data" /\ threads[c].out_file = i}
        |-> files[id]]

\* handle_upload up to the recv of the file size: the name test, the existence
\* test and the OK line
UploadCommand(c, filename, sent) ==
    /\ ftp_thread[c].pc = "command"
    /\ IF InvalidFilename(filename)
       THEN /\ ftp_reply' = [ftp_reply EXCEPT ![c] = "ERROR invalid filename"]
            /\ ftp_thread' = [ftp_thread EXCEPT ![c] = ThreadAtCommand("rejected")]
       ELSE IF FileExists(ftp_dir, filename)
       THEN /\ ftp_reply' = [ftp_reply EXCEPT ![c] = "ERROR file exists"]
            /\ ftp_thread' = [ftp_thread EXCEPT ![c] = ThreadAtCommand("rejected")]
       ELSE IF ~sent
       THEN /\ ftp_reply' = [ftp_reply EXCEPT ![c] = ""]
            /\ ftp_thread' = [ftp_thread EXCEPT ![c] = ThreadAtCommand("send failed")]
       ELSE /\ ftp_reply' = [ftp_reply EXCEPT ![c] = "OK"]
            /\ ftp_thread' = [ftp_thread EXCEPT ![c] =
                   [pc |-> "recv_size", filename |-> filename, file_size |-> 0,
                    total_received |-> 0, out_file |-> 0, result |-> "accepted"]]
    /\ UNCHANGED <<ftp_dir, ftp_files>>
    /\ UNCHANGED <<tracker_vars, script_vars, canon_vars, order_vars, p2p_vars, peer_vars, sess_vars, chat_vars>>

\* handle_upload from the recv of the file size to the first recv of data:
\* recv_all of eight bytes, ntohll, the ofstream, and the loop test
UploadSize(c, got, file_size_net, opened) ==
    /\ ftp_thread[c].pc = "recv_size"
    /\ IF ~got
       THEN /\ ftp_thread' = [ftp_thread EXCEPT ![c] = ThreadAtCommand("no size")]
            /\ UNCHANGED <<ftp_dir, ftp_files>>
       ELSE IF ~opened
       THEN /\ ftp_thread' = [ftp_thread EXCEPT ![c] = ThreadAtCommand("not opened")]
            /\ UNCHANGED <<ftp_dir, ftp_files>>
       ELSE \E o \in {OpenTrunc(ftp_dir, ftp_files, ftp_thread[c].filename)} :
            \E t \in {IF U64(ntohll(file_size_net)) > 0
                      THEN [ftp_thread EXCEPT ![c] =
                               [pc |-> "recv_data", filename |-> ftp_thread[c].filename,
                                file_size |-> U64(ntohll(file_size_net)),
                                total_received |-> 0, out_file |-> o[3],
                                result |-> "accepted"]]
                      ELSE [ftp_thread EXCEPT ![c] = ThreadAtCommand("success")]} :
               /\ ftp_thread' = t
               /\ ftp_dir' = o[1]
               /\ ftp_files' = Collect(o[1], o[2], t)
    /\ UNCHANGED ftp_reply
    /\ UNCHANGED <<tracker_vars, script_vars, canon_vars, order_vars, p2p_vars, peer_vars, sess_vars, chat_vars>>

\* one round of the receive loop: recv returned `received` bytes (0 or less:
\* the connection failed or closed), each byte carrying the client's number
UploadData(c, received) ==
    /\ ftp_thread[c].pc = "recv_data"
    /\ received <= FtpMin(BUFFER_SIZE, ftp_thread[c].file_size - ftp_thread[c].total_received)
    /\ IF received <= 0
       THEN \E t \in {[ftp_thread EXCEPT ![c] =
                          [ThreadAtCommand("removed") EXCEPT
                              !.filename = ftp_thread[c].filename,
                              !.total_received = ftp_thread[c].total_received]]} :
            \E d \in {Remove(ftp_dir, ftp_thread[c].filename)} :
               /\ ftp_thread' = t
               /\ ftp_dir' = d
               /\ ftp_files' = Collect(d, ftp_files, t)
       ELSE \E f \in {[ftp_files EXCEPT ![ftp_thread[c].out_file] =
                          WriteAt(@, ftp_thread[c].total_received, received, c)]} :
            \E t \in {IF ftp_thread[c].total_received + received < ftp_thread[c].file_size
                      THEN [ftp_thread EXCEPT ![c].total_received = @ + received]
                      ELSE [ftp_thread EXCEPT ![c] = ThreadAtCommand("success")]} :
               /\ ftp_thread' = t
               /\ ftp_dir' = ftp_dir
               /\ ftp_files' = Collect(ftp_dir, f, t)
    /\ UNCHANGED ftp_reply
    /\ UNCHANGED <<tracker_vars, script_vars, canon_vars, order_vars, p2p_vars, peer_vars, sess_vars, chat_vars>>

\* filenames the clients try
FtpNames == {<<"a">>, <<"b">>, <<".", ".", "/", "a">>}

\* server_files/ when the server starts: empty, or holding one earlier file
InitFtp ==
    /\ TrackerIdle /\ ScriptIdle /\ CanonIdle /\ OrderIdle /\ P2pIdle /\ PeerIdle
    /\ SessIdle /\ ChatIdle
    /\ \E old \in BOOLEAN :
          /\ ftp_dir = IF old THEN [n \in {<<"b">>} |-> 1] ELSE <<>>
          /\ ftp_files = IF old THEN [id \in {1} |-> <<7>>] ELSE <<>>
    /\ ftp_thread = [c \in FtpClients |-> ThreadAtCommand("")]
    /\ ftp_reply = [c \in FtpClients |-> ""]

NextFtp ==
    \/ \E c \in FtpClients, filename \in FtpNames, sent \in BOOLEAN :
          UploadCommand(c, filename, sent)
    \/ \E c \in FtpClients, got \in BOOLEAN, n \in 0..MaxFileSize, opened \in BOOLEAN :
          UploadSize(c, got, WireSize(n), opened)
    \/ \E c \in FtpClients, received \in 0..MaxFileSize : UploadData(c, received)

SpecFtp == InitFtp /\ [][NextFtp]_vars

\* an upload the server has answered with OK and not yet finished
Accepted(c) == ftp_thread[c].pc \in {"recv_size", "recv_data"}

\* C21: UPLOAD never overwrites an existing file, whatever the interleaving of
\* the client threads: two clients are never both accepted for the same
\* filename, and the file named by an accepted upload that has not yet opened it
\* does not exist.
C21_NoOverwrite ==
    /\ \A c1 \in FtpClients, c2 \in FtpClients :
          c1 # c2 /\ Accepted(c1) /\ Accepted(c2)
              => ftp_thread[c1].filename # ftp_thread[c2].filename
    /\ \A c \in FtpClients :
          ftp_thread[c].pc = "recv_size" => ftp_thread[c].filename \notin DOMAIN ftp_dir

----------------------------------------------------------------------------
\* P2P peer (src/BitTorrent/peer.cpp): the downloader thread.  The remote peer
\* is the environment: it answers each message with whatever bytes it likes or
\* drops the connection.  A step runs the thread from one blocking receive to
\* the next.

\* bound: the largest size a PIECE header announces
MaxPieceData == 2

RECURSIVE Pow2(_)
Pow2(n) == IF n = 0 THEN 1 ELSE 2 * Pow2(n - 1)

\* bit i is bit 7 - (i % 8) of byte i / 8
binary_to_bitfield(data, num_pieces) ==
    [i \in 0..(num_pieces - 1) |-> (data[(i \div 8) + 1] \div Pow2(7 - (i % 8))) % 2 = 1]

\* peer_bitfield after binary_to_bitfield: a buffer shorter than the pieces need
\* is read past its end, and the bits read there are anything
ParsedBitfields(data) ==
    IF Len(data) * 8 >= g_num_pieces
    THEN {binary_to_bitfield(data, g_num_pieces)}
    ELSE [Pieces -> BOOLEAN]

\* the pieces the peer has and this peer lacks, in ascending order
RECURSIVE needed_pieces(_, _, _)
needed_pieces(i, peer_bitfield, bitfield) ==
    IF i >= g_num_pieces THEN <<>>
    ELSE IF peer_bitfield[i] /\ ~bitfield[i]
    THEN <<i>> \o needed_pieces(i + 1, peer_bitfield, bitfield)
    ELSE needed_pieces(i + 1, peer_bitfield, bitfield)

is_download_complete(bitfield) == \A i \in Pieces : bitfield[i]

\* recv_full: recv is called until `length` bytes have come; chunks are the
\* values the successive recv calls return
RECURSIVE recv_full(_, _, _)
recv_full(total_received, length, chunks) ==
    IF total_received >= length THEN TRUE
    ELSE IF chunks = <<>> \/ Head(chunks) <= 0 THEN FALSE
    ELSE recv_full(total_received + FtpMin(Head(chunks), length - total_received),
                   length, Tail(chunks))

\* piece_tokens.size() < 3 || piece_tokens[0] != "PIECE"
InvalidPieceHeader(piece_tokens) == Len(piece_tokens) < 3 \/ piece_tokens[1] # "PIECE"

\* Variant: the index of the PIECE header is not compared
IndexMismatch_Never(received_piece_index, piece_index) == FALSE

\* received_piece_index != piece_index
IndexMismatch(received_piece_index, piece_index) == received_piece_index # piece_index

DlEvent(op, piece_index, received_piece_index, received_full, written) ==
    [op |-> op, piece_index |-> piece_index, received_piece_index |-> received_piece_index,
     received_full |-> received_full, written |-> written]

PeerHarnessIdle ==
    UNCHANGED <<tracker_vars, script_vars, canon_vars, order_vars, p2p_vars, ftp_vars, chat_vars>>

\* the downloader thread between two peers: it stops when every piece is
\* there, otherwise it asks the tracker and connects to a peer, or finds none
downloader_thread_func(connected) ==
    /\ downloader.pc = "idle"
    /\ downloader' =
          IF is_download_complete(g_bitfield) THEN DownloaderAt("done")
          ELSE IF connected THEN DownloaderAt("handshake")
          ELSE DownloaderAt("idle")
    /\ dl_event' = DlEvent(IF is_download_complete(g_bitfield) THEN "COMPLETE"
                           ELSE IF connected THEN "CONNECT" ELSE "WAIT", 0, 0, FALSE, FALSE)
    /\ UNCHANGED g_bitfield
    /\ PeerHarnessIdle

\* download_from_peer: HANDSHAKE sent, the answer read and compared
Handshake(response) ==
    /\ downloader.pc = "handshake"
    /\ downloader' = IF response = "HANDSHAKE_OK" THEN DownloaderAt("bitfield")
                     ELSE DownloaderAt("idle")
    /\ dl_event' = DlEvent("HANDSHAKE", 0, 0, FALSE, FALSE)
    /\ UNCHANGED g_bitfield
    /\ PeerHarnessIdle

\* download_from_peer: the peer's BITFIELD read, the own one sent, and the
\* needed pieces listed
ExchangeBitfield(received, data, sent) ==
    /\ downloader.pc = "bitfield"
    /\ IF received /\ sent
       THEN \E peer_bitfield \in ParsedBitfields(data) :
               downloader' = [pc |-> "loop", peer_bitfield |-> peer_bitfield,
                              needed_pieces |-> needed_pieces(0, peer_bitfield, g_bitfield),
                              next |-> 1, piece_index |-> 0]
       ELSE downloader' = DownloaderAt("idle")
    /\ dl_event' = DlEvent("BITFIELD", 0, 0, FALSE, FALSE)
    /\ UNCHANGED g_bitfield
    /\ PeerHarnessIdle

\* head of the loop over needed_pieces: the end of the list, the second look at
\* g_bitfield, and the REQUEST
Request(sent) ==
    /\ downloader.pc = "loop"
    /\ IF downloader.next > Len(downloader.needed_pieces)
       THEN /\ downloader' = DownloaderAt("idle")
            /\ dl_event' = DlEvent("DISCONNECT", 0, 0, FALSE, FALSE)
       ELSE IF g_bitfield[downloader.needed_pieces[downloader.next]]
       THEN /\ downloader' = [downloader EXCEPT !.next = @ + 1]
            /\ dl_event' = DlEvent("SKIP", downloader.needed_pieces[downloader.next],
                                   0, FALSE, FALSE)
       ELSE IF ~sent
       THEN /\ downloader' = DownloaderAt("idle")
            /\ dl_event' = DlEvent("DISCONNECT", 0, 0, FALSE, FALSE)
       ELSE /\ downloader' = [downloader EXCEPT
                                 !.pc = "piece",
                                 !.piece_index = downloader.needed_pieces[downloader.next]]
            /\ dl_event' = DlEvent("REQUEST", downloader.needed_pieces[downloader.next],
                                   0, FALSE, FALSE)
    /\ UNCHANGED g_bitfield
    /\ PeerHarnessIdle

\* The rest of the loop body: the PIECE header, the data, write_piece, the
\* bit, HAVE and the test for completion.  piece_tokens is <<>> when no line
\* came; chunks are what the recv calls for the data return; written is
\* write_piece's result.
Piece(piece_tokens, chunks, written) ==
    /\ downloader.pc = "piece"
    /\ IF piece_tokens = <<>> \/ InvalidPieceHeader(piece_tokens)
       THEN /\ downloader' = DownloaderAt("idle")
            /\ dl_event' = DlEvent("PIECE", downloader.piece_index, 0, FALSE, FALSE)
            /\ UNCHANGED g_bitfield
       ELSE IF \/ IndexMismatch(atoi(piece_tokens[2]), downloader.piece_index)
               \/ ~recv_full(0, atoi(piece_tokens[3]), chunks)
               \/ ~written
       THEN /\ downloader' = DownloaderAt("idle")
            /\ dl_event' = DlEvent("PIECE", downloader.piece_index, atoi(piece_tokens[2]),
                                   /\ ~IndexMismatch(atoi(piece_tokens[2]), downloader.piece_index)
                                   /\ recv_full(0, atoi(piece_tokens[3]), chunks),
                                   FALSE)
            /\ UNCHANGED g_bitfield
       ELSE \E b \in {[g_bitfield EXCEPT ![downloader.piece_index] = TRUE]} :
               /\ g_bitfield' = b
               /\ downloader' = IF is_download_complete(b) THEN DownloaderAt("idle")
                                ELSE [downloader EXCEPT !.pc = "loop", !.next = @ + 1]
               /\ dl_event' = DlEvent("PIECE", downloader.piece_index,
                                      atoi(piece_tokens[2]), TRUE, TRUE)
    /\ PeerHarnessIdle

\* what a remote peer may answer
HandshakeResponses == {"HANDSHAKE_OK", "ERROR"}

BitfieldData == {<<>>} \cup {<<32 * k>> : k \in 0..7} \cup {<<255>>}

PieceHeaders ==
    {<<>>, <<"ERROR", <<0>>>>}
        \cup {<<"PIECE", <<i>>, <<n>>>> : i \in Pieces, n \in 0..MaxPieceData}

PieceChunks == {<<>>, <<1>>, <<MaxPieceData>>, <<1, 0>>, <<1, 1>>}

\* main: in seed mode every bit is set and no downloader runs; in download
\* mode no bit is set and the downloader thread starts
InitPeer ==
    /\ TrackerIdle /\ ScriptIdle /\ CanonIdle /\ OrderIdle /\ P2pIdle /\ FtpIdle
    /\ SessIdle /\ ChatIdle
    /\ \E mode \in {"seed", "download"} :
          /\ g_bitfield = [i \in Pieces |-> mode = "seed"]
          /\ downloader = DownloaderAt(IF mode = "seed" THEN "none" ELSE "idle")
    /\ dl_event = NoDlEvent

NextPeer ==
    \/ \E connected \in BOOLEAN :
          downloader_thread_func(connected) /\ UNCHANGED sess_vars
    \/ \E response \in HandshakeResponses : Handshake(response) /\ UNCHANGED sess_vars
    \/ \E received \in BOOLEAN, data \in BitfieldData, sent \in BOOLEAN :
          ExchangeBitfield(received, data, sent) /\ UNCHANGED sess_vars
    \/ \E sent \in BOOLEAN : Request(sent) /\ UNCHANGED sess_vars
    \/ \E piece_tokens \in PieceHeaders, chunks \in PieceChunks, written \in BOOLEAN :
          Piece(piece_tokens, chunks, written) /\ UNCHANGED sess_vars

SpecPeer == InitPeer /\ [][NextPeer]_vars

\* C30: a bit of g_bitfield that is true stays true; a bit becomes true only
\* in the step that received the PIECE header for the requested index and all
\* of its data and in which write_piece succeeded; and a REQUEST is sent only
\* for a piece whose bit is false, which stays false while the request is open.
C30_Step ==
    /\ \A i \in Pieces : g_bitfield[i] => g_bitfield'[i]
    /\ \A i \in Pieces :
          ~g_bitfield[i] /\ g_bitfield'[i] =>
              /\ downloader.pc = "piece" /\ downloader.piece_index = i
              /\ dl_event'.op = "PIECE" /\ dl_event'.piece_index = i
              /\ dl_event'.received_piece_index = i
              /\ dl_event'.received_full /\ dl_event'.written
    /\ dl_event'.op = "REQUEST" /\ downloader.pc = "loop" =>
          ~g_bitfield[dl_event'.piece_index]

C30_BitfieldMonotone ==
    /\ [](downloader.pc = "piece" => ~g_bitfield[downloader.piece_index])
    /\ [][C30_Step]_vars

\* a piece is held, the peer has it too, and another piece is on request
C30_Witness ==
    \E i \in Pieces, j \in Pieces :
        /\ i # j /\ g_bitfield[i] /\ dl_event.op = "REQUEST"
        /\ downloader.pc = "piece" /\ downloader.piece_index = j
        /\ downloader.peer_bitfield[i]

\* client c's upload ends in this step because recv returned 0 or less
UploadFails(c) ==
    /\ ftp_thread[c].pc = "recv_data"
    /\ ftp_thread'[c].pc = "command"
    /\ ftp_thread'[c].result # "success"

\* C36: when the connection fails or closes before all announced bytes of an
\* accepted upload have come, the partially written file is deleted: after
\* that step the upload's name is not in the server directory, no name leads
\* to the file the thread was writing, and no other name is touched.
C36_Step ==
    \A c \in FtpClients :
        UploadFails(c) =>
            /\ ftp_thread[c].total_received < ftp_thread[c].file_size
            /\ ftp_thread[c].filename \notin DOMAIN ftp_dir'
            /\ \A n \in DOMAIN ftp_dir' : ftp_dir'[n] # ftp_thread[c].out_file
            /\ \A n \in DOMAIN ftp_dir : n # ftp_thread[c].filename =>
                  n \in DOMAIN ftp_dir' /\ ftp_dir'[n] = ftp_dir[n]

C36_PartialUploadCleanup == [][C36_Step]_vars

\* an upload failed after part of its data was written, and its name is gone
C36_Witness ==
    \E c \in FtpClients :
        /\ ftp_thread[c].result = "removed"
        /\ ftp_thread[c].total_received > 0
        /\ ftp_thread[c].filename \notin DOMAIN ftp_dir

----------------------------------------------------------------------------
\* P2P peer (src/BitTorrent/peer.cpp): the server role, handle_peer_connection,
\* and a session between a downloading peer and a serving peer.  A line is the
\* tuple of its tokens; <<"EOF">> stands for a closed connection; the bytes
\* that follow a header travel as the next item.  peer_server holds the serving
\* peer's g_file_id and g_bitfield and where its connection thread waits.

RECURSIVE Digits(_)
\* the decimal digits of a number that is not negative
Digits(n) == IF n < 10 THEN <<n>> ELSE Digits(n \div 10) \o <<n % 10>>

\* std::to_string of an int
to_string(n) == IF n < 0 THEN [sign |-> "-", digits |-> Digits(0 - n)]
                ELSE [sign |-> "", digits |-> Digits(n)]

\* std::atoi of a token that may start with a minus sign
SignedAtoi(token) == IF token.sign = "-" THEN 0 - atoi(token.digits) ELSE atoi(token.digits)

RECURSIVE ByteOf(_, _, _)
\* bits k*8 .. k*8+7 of the bitfield as a byte, bit i at 1 << (7 - i % 8)
ByteOf(bitfield, k, i) ==
    IF i >= 8 \/ k * 8 + i >= g_num_pieces THEN 0
    ELSE (IF bitfield[k * 8 + i] THEN Pow2(7 - i) ELSE 0) + ByteOf(bitfield, k, i + 1)

bitfield_to_binary(bitfield) ==
    [k \in 1..((g_num_pieces + 7) \div 8) |-> ByteOf(bitfield, k - 1, 0)]

\* read_piece: every piece has PIECE_SIZE bytes but the last, which has the rest
piece_size(piece_index) == IF piece_index = g_num_pieces - 1 THEN 1 ELSE MaxPieceData

Eof == <<"EOF">>

BitfieldMessage(bitfield) ==
    << <<"BITFIELD", Digits(Len(bitfield_to_binary(bitfield)))>>, bitfield_to_binary(bitfield) >>

\* Variant: the server role waits for the client's BITFIELD before it sends its own
HandshakeReply_NoBitfield(bitfield) == << <<"HANDSHAKE_OK">> >>

\* what the server role sends once the file id matched: HANDSHAKE_OK, then its
\* BITFIELD header and data, before it reads anything more
HandshakeReply(bitfield) == << <<"HANDSHAKE_OK">> >> \o BitfieldMessage(bitfield)

\* Variant: a piece is sent whether or not the peer holds it
HasPiece_Always(bitfield, piece_index) == TRUE

\* piece_index >= 0 && piece_index < g_num_pieces, then g_bitfield[piece_index]
HasPiece(bitfield, piece_index) ==
    piece_index >= 0 /\ piece_index < g_num_pieces /\ bitfield[piece_index]

ServerResult(pc, out) == [pc |-> pc, out |-> out]

\* handle_peer_connection from one receive to the next: the thread waits at
\* pc, `line` is what it receives and `data` the bytes after it; read_ok is
\* read_piece's result and sent that of sending the PIECE header and data
handle_peer_connection(pc, file_id, bitfield, line, data, read_ok, sent) ==
    IF line = Eof THEN ServerResult("closed", <<Eof>>)
    ELSE IF pc = "handshake"
    THEN IF Len(line) < 2 \/ line[1] # "HANDSHAKE" THEN ServerResult("closed", <<Eof>>)
         ELSE IF line[2] # file_id
         THEN ServerResult("closed", << <<"ERROR", "Wrong file_id">>, Eof >>)
         ELSE ServerResult("bitfield", HandshakeReply(bitfield))
    ELSE IF pc = "bitfield"
    THEN IF Len(line) < 2 \/ line[1] # "BITFIELD" THEN ServerResult("closed", <<Eof>>)
         ELSE IF ~recv_full(0, atoi(line[2]), <<Len(data)>>)
         THEN ServerResult("closed", <<Eof>>)
         ELSE ServerResult("serve", <<>>)
    ELSE IF line = <<>> THEN ServerResult("serve", <<>>)
    ELSE IF line[1] = "REQUEST" /\ Len(line) >= 2
    THEN IF ~HasPiece(bitfield, SignedAtoi(line[2]))
         THEN ServerResult("serve", << <<"ERROR", "Piece not available">> >>)
         ELSE IF ~read_ok
         THEN ServerResult("serve", << <<"ERROR", "Failed to read piece">> >>)
         ELSE IF ~sent THEN ServerResult("closed", <<Eof>>)
         ELSE ServerResult("serve",
                  << <<"PIECE", Digits(SignedAtoi(line[2])),
                       Digits(piece_size(SignedAtoi(line[2])))>>,
                     [i \in 1..piece_size(SignedAtoi(line[2])) |-> SignedAtoi(line[2])] >>)
    ELSE ServerResult("serve", <<>>)

SessHarnessIdle ==
    UNCHANGED <<tracker_vars, script_vars, canon_vars, order_vars, p2p_vars, ftp_vars, chat_vars>>

\* the file the downloading peer was started for
ClientFileId == "myfile"

Drop(q, n) == SubSeq(q, n + 1, Len(q))

\* the downloader between two peers, with the connection it opens: a new
\* server thread starts on the serving peer and HANDSHAKE is on its way
SessionConnect(connected) ==
    /\ connected => peer_server.pc \in {"none", "closed"}
    /\ downloader_thread_func(connected)
    /\ IF downloader'.pc = "handshake"
       THEN /\ peer_server' = [peer_server EXCEPT !.pc = "handshake"]
            /\ c2s' = << <<"HANDSHAKE", ClientFileId>> >>
            /\ s2c' = <<>>
       ELSE UNCHANGED sess_vars

\* the client role reads the answer to its HANDSHAKE
SessionHandshake ==
    /\ downloader.pc = "handshake"
    /\ s2c # <<>>
    /\ Handshake(Head(s2c)[1])
    /\ s2c' = Tail(s2c)
    /\ c2s' = IF downloader'.pc = "idle" THEN Append(c2s, Eof) ELSE c2s
    /\ UNCHANGED peer_server

\* the client role reads the server's BITFIELD and then sends its own
SessionBitfield ==
    /\ downloader.pc = "bitfield"
    /\ s2c # <<>>
    /\ IF Head(s2c)[1] = "BITFIELD" /\ Len(s2c) >= 2
       THEN /\ ExchangeBitfield(recv_full(0, atoi(Head(s2c)[2]), <<Len(s2c[2])>>), s2c[2], TRUE)
            /\ s2c' = Drop(s2c, 2)
       ELSE /\ ExchangeBitfield(FALSE, <<>>, TRUE)
            /\ s2c' = Tail(s2c)
    /\ c2s' = IF downloader'.pc = "idle" THEN Append(c2s, Eof)
              ELSE c2s \o BitfieldMessage(g_bitfield)
    /\ UNCHANGED peer_server

\* the client role sends the next REQUEST or leaves
SessionRequest ==
    /\ downloader.pc = "loop"
    /\ Request(TRUE)
    /\ c2s' = IF downloader'.pc = "piece"
              THEN Append(c2s, <<"REQUEST", to_string(downloader'.piece_index)>>)
              ELSE IF downloader'.pc = "idle" THEN Append(c2s, Eof)
              ELSE c2s
    /\ UNCHANGED <<s2c, peer_server>>

\* the client role reads the answer to its REQUEST; after a stored piece it
\* sends HAVE, and it closes the connection when it leaves the loop
SessionPiece(written) ==
    /\ downloader.pc = "piece"
    /\ s2c # <<>>
    /\ IF Head(s2c)[1] = "PIECE" /\ Len(s2c) >= 2
       THEN /\ Piece(Head(s2c), <<Len(s2c[2])>>, written)
            /\ s2c' = Drop(s2c, 2)
       ELSE /\ Piece(IF Head(s2c) = Eof THEN <<>> ELSE Head(s2c), <<>>, written)
            /\ s2c' = Tail(s2c)
    /\ c2s' = (IF g_bitfield' # g_bitfield
               THEN Append(c2s, <<"HAVE", to_string(downloader.piece_index)>>)
               ELSE c2s)
              \o (IF downloader'.pc = "idle" THEN <<Eof>> ELSE <<>>)
    /\ UNCHANGED peer_server

\* the serving peer's connection thread reads what the client role sent
SessionServe(read_ok, sent) ==
    /\ peer_server.pc \in {"handshake", "bitfield", "serve"}
    /\ c2s # <<>>
    /\ \E n \in {IF peer_server.pc = "bitfield" /\ Head(c2s) # Eof /\ Len(c2s) >= 2
                 THEN 2 ELSE 1} :
       \E r \in {handle_peer_connection(peer_server.pc, peer_server.g_file_id,
                     peer_server.g_bitfield, Head(c2s),
                     IF n = 2 THEN c2s[2] ELSE <<>>, read_ok, sent)} :
          /\ peer_server' = [peer_server EXCEPT !.pc = r.pc]
          /\ s2c' = s2c \o r.out
          /\ c2s' = Drop(c2s, n)
    /\ UNCHANGED peer_vars
    /\ SessHarnessIdle

\* files the serving peer may have been started for
ServerFileIds == {"myfile", "other"}

\* a downloading peer that holds some pieces but not all, and a serving peer
\* that holds any pieces
InitSession ==
    /\ TrackerIdle /\ ScriptIdle /\ CanonIdle /\ OrderIdle /\ P2pIdle /\ FtpIdle /\ ChatIdle
    /\ g_bitfield \in {b \in [Pieces -> BOOLEAN] : ~is_download_complete(b)}
    /\ downloader = DownloaderAt("idle")
    /\ dl_event = NoDlEvent
    /\ \E file_id \in ServerFileIds, bitfield \in [Pieces -> BOOLEAN] :
          peer_server = [pc |-> "none", g_file_id |-> file_id, g_bitfield |-> bitfield]
    /\ c2s = <<>>
    /\ s2c = <<>>

ClientStep ==
    \/ \E connected \in BOOLEAN : SessionConnect(connected)
    \/ SessionHandshake
    \/ SessionBitfield
    \/ SessionRequest
    \/ \E written \in BOOLEAN : SessionPiece(written)

ServerStep == \E read_ok \in BOOLEAN : SessionServe(read_ok, TRUE)

NextSession ==
    \/ \E connected \in BOOLEAN : SessionConnect(connected)
    \/ SessionHandshake
    \/ SessionBitfield
    \/ SessionRequest
    \/ \E written \in BOOLEAN : SessionPiece(written)
    \/ \E read_ok \in BOOLEAN : SessionServe(read_ok, TRUE)

SpecSession == InitSession /\ [][NextSession]_vars

\* a thread that can read what it waits for is scheduled: both peers run
SpecSessionLive ==
    InitSession /\ [][NextSession]_vars /\ WF_vars(ClientStep) /\ WF_vars(ServerStep)

\* the client role waits for a message and none is there
ClientWaits == downloader.pc \in {"handshake", "bitfield", "piece"} /\ s2c = <<>>

\* the server role waits for a message and none is there
ServerWaits == peer_server.pc \in {"handshake", "bitfield", "serve"} /\ c2s = <<>>

InSetup ==
    \/ peer_server.pc \in {"handshake", "bitfield"}
    \/ downloader.pc \in {"handshake", "bitfield"}

\* both BITFIELDs have been read: the server role reads the client's last
SetupDone == peer_server.pc = "serve" /\ downloader.pc \notin {"handshake", "bitfield"}

\* C31: session setup is deadlock-free.  While HANDSHAKE, HANDSHAKE_OK and the
\* two BITFIELDs are exchanged the two sides never both wait for a message
\* that is not on its way, and when the file ids match and both sides stay
\* connected every session that was opened reaches the state where both
\* BITFIELDs have been read.
C31_SetupCompletes ==
    /\ [](InSetup => ~(ClientWaits /\ ServerWaits))
    /\ (peer_server.pc = "handshake" /\ peer_server.g_file_id = ClientFileId) ~> SetupDone

\* setup is over, the server role has read the client's BITFIELD, and the
\* client role is about to request
C31_Witness ==
    /\ SetupDone
    /\ downloader.pc = "loop"
    /\ peer_server.g_file_id = ClientFileId
    /\ c2s = <<>> /\ s2c = <<>>

----------------------------------------------------------------------------
\* The server role facing any client: the remote side sends whatever lines it
\* likes, one at a time, and reads every answer before it sends again.

\* server_thread_func accepts a connection and starts its thread
ServeAccept ==
    /\ peer_server.pc \in {"none", "closed"}
    /\ peer_server' = [peer_server EXCEPT !.pc = "handshake"]
    /\ c2s' = <<>>
    /\ s2c' = <<>>
    /\ UNCHANGED peer_vars
    /\ SessHarnessIdle

\* lines a remote client may send
ServeLines ==
    {<<"HANDSHAKE", f>> : f \in ServerFileIds}
        \cup {<<"REQUEST", to_string(i)>> : i \in (0 - 1)..g_num_pieces}
        \cup {<<"REQUEST">>, <<"HAVE", to_string(0)>>, <<>>, Eof}

\* the remote client has read the answers and sends a line, or a BITFIELD
\* header with its bytes when the server role expects one
RemoteSends(items) ==
    /\ peer_server.pc \in {"handshake", "bitfield", "serve"}
    /\ c2s = <<>>
    /\ Len(items) = 2 => peer_server.pc = "bitfield"
    /\ c2s' = items
    /\ s2c' = <<>>
    /\ UNCHANGED <<peer_server, peer_vars>>
    /\ SessHarnessIdle

InitServe ==
    /\ TrackerIdle /\ ScriptIdle /\ CanonIdle /\ OrderIdle /\ P2pIdle /\ FtpIdle /\ ChatIdle
    /\ PeerIdle
    /\ \E bitfield \in [Pieces -> BOOLEAN] :
          peer_server = [pc |-> "none", g_file_id |-> ClientFileId, g_bitfield |-> bitfield]
    /\ c2s = <<>>
    /\ s2c = <<>>

NextServe ==
    \/ ServeAccept
    \/ \E line \in ServeLines : RemoteSends(<<line>>)
    \/ RemoteSends(BitfieldMessage([i \in Pieces |-> FALSE]))
    \/ \E read_ok \in BOOLEAN, sent \in BOOLEAN : SessionServe(read_ok, sent)

SpecServe == InitServe /\ [][NextServe]_vars

\* the server role reads a REQUEST for piece i in this step
ReadsRequest(i) ==
    /\ peer_server.pc = "serve"
    /\ c2s # <<>> /\ c2s' = Tail(c2s)
    /\ Len(Head(c2s)) >= 2
    /\ Head(c2s)[1] = "REQUEST"
    /\ SignedAtoi(Head(c2s)[2]) = i

\* what the server role sends in this step
Answer == SubSeq(s2c', Len(s2c) + 1, Len(s2c'))

\* C32: a REQUEST for piece i is answered with a PIECE header and data only
\* when 0 <= i < g_num_pieces and the peer holds piece i, and then with the
\* header for i and as many bytes as it announces; otherwise the answer is one
\* ERROR line and no data, and the thread goes on waiting for requests.
C32_Step ==
    \A i \in (0 - 1)..g_num_pieces :
        ReadsRequest(i) =>
            /\ (\E k \in 1..Len(Answer) : Answer[k] # <<>> /\ Answer[k][1] \notin {"ERROR", "EOF"}) =>
                  /\ i >= 0 /\ i < g_num_pieces /\ peer_server.g_bitfield[i]
                  /\ Len(Answer) = 2
                  /\ Answer[1][1] = "PIECE"
                  /\ atoi(Answer[1][2]) = i
                  /\ atoi(Answer[1][3]) = Len(Answer[2])
            /\ ~(i >= 0 /\ i < g_num_pieces /\ peer_server.g_bitfield[i]) =>
                  /\ Len(Answer) = 1
                  /\ Answer[1][1] = "ERROR"
                  /\ peer_server'.pc = "serve"

C32_RequestHandling == [][C32_Step]_vars

\* a request for a piece the peer lacks was refused and the thread still serves
C32_Witness ==
    /\ peer_server.pc = "serve"
    /\ s2c = << <<"ERROR", "Piece not available">> >>
    /\ c2s = <<>>

----------------------------------------------------------------------------
\* Chat server (src/cs-chatroom/epoll_server.cpp): one thread, one handler per
\* epoll event.  A handler works on the server state as a record
\*   clients : g_clients, fd -> ClientInfo
\*   socks   : the open client sockets, fd -> number of the connection
\*   epoll   : the client fds registered with the epoll instance
\*   sent    : the send calls made so far by the running handler
\*   hist    : per connection how it was accepted, and who has left
\* Connections are numbered in the order accept returns them.

\* bound: the client cap, 1000 in the source
MAX_CLIENTS == 2

\* bound: connections accepted in one run
MaxConns == 3

\* bound: connections waiting when the listening socket becomes readable
MaxAccepts == 2

ChatState(clients, socks, epoll, sent, hist) ==
    [clients |-> clients, socks |-> socks, epoll |-> epoll, sent |-> sent, hist |-> hist]

\* the fds a client socket can get: 0-2 are the standard streams, 3 the
\* listening socket, 4 the epoll instance; one more than the cap can be open
ClientFds == 5..(5 + MAX_CLIENTS)

\* accept returns the lowest fd that is not open
LowestFree(socks) == CHOOSE fd \in ClientFds : fd \notin DOMAIN socks /\ \A g \in ClientFds : g < fd => g \in DOMAIN socks

Send(fd, message, clients) == [fd |-> fd, message |-> message, online |-> DOMAIN clients]

RECURSIVE BroadcastFrom(_, _, _, _)
\* the loop over g_clients in key order from fd upwards
BroadcastFrom(fd, clients, sender_fd, message) ==
    IF \A g \in DOMAIN clients : g < fd THEN <<>>
    ELSE IF fd \notin DOMAIN clients \/ fd = sender_fd
    THEN BroadcastFrom(fd + 1, clients, sender_fd, message)
    ELSE <<Send(fd, message, clients)>> \o BroadcastFrom(fd + 1, clients, sender_fd, message)

\* Variant: the sender is not left out
broadcast_message_ToAll(clients, sender_fd, message) ==
    BroadcastFrom(0, clients, 0 - 1, message)

\* the send calls of broadcast_message, in order
broadcast_message(clients, sender_fd, message) ==
    BroadcastFrom(0, clients, sender_fd, message)

\* Variant: the table is never found full
TableFull_Never(clients) == FALSE

\* g_clients.size() >= MAX_CLIENTS
TableFull(clients) == Cardinality(DOMAIN clients) >= MAX_CLIENTS

\* ClientInfo: the default nickname is made from the fd
ClientInfo(fd) == [sock_fd |-> fd, nickname |-> fd]

MapPut(m, k, v) == [x \in DOMAIN m \cup {k} |-> IF x = k THEN v ELSE m[x]]

\* Variant: the entry stays
EraseClient_Keep(clients, fd) == clients

\* g_clients.erase(it)
EraseClient(clients, fd) == [x \in DOMAIN clients \ {fd} |-> clients[x]]

Logged(hist, conn, online, nonblocking, registered) ==
    [hist EXCEPT !.conns = conn,
                 !.log = Append(@, [online |-> online, nonblocking |-> nonblocking,
                                    registered |-> registered])]

\* one round of the accept loop: accept returned a socket for connection
\* hist.conns + 1; nonblocking and registered are the results of
\* set_nonblocking and epoll_ctl ADD
AcceptOne(S, nonblocking, registered) ==
    IF TableFull(S.clients)
    THEN ChatState(S.clients, S.socks, S.epoll,
                   Append(S.sent, Send(LowestFree(S.socks), [kind |-> "full", nickname |-> 0],
                                       S.clients)),
                   Logged(S.hist, S.hist.conns + 1, Cardinality(DOMAIN S.clients), FALSE, FALSE))
    ELSE IF ~nonblocking \/ ~registered
    THEN ChatState(S.clients, S.socks, S.epoll, S.sent,
                   Logged(S.hist, S.hist.conns + 1, Cardinality(DOMAIN S.clients),
                          nonblocking, nonblocking /\ registered))
    ELSE ChatState(
             MapPut(S.clients, LowestFree(S.socks), ClientInfo(LowestFree(S.socks))),
             MapPut(S.socks, LowestFree(S.socks), S.hist.conns + 1),
             S.epoll \cup {LowestFree(S.socks)},
             (S.sent \o <<Send(LowestFree(S.socks),
                               [kind |-> "welcome", nickname |-> LowestFree(S.socks)],
                               MapPut(S.clients, LowestFree(S.socks),
                                      ClientInfo(LowestFree(S.socks))))>>)
                 \o broadcast_message(MapPut(S.clients, LowestFree(S.socks),
                                             ClientInfo(LowestFree(S.socks))),
                                      LowestFree(S.socks),
                                      [kind |-> "join", nickname |-> LowestFree(S.socks)]),
             Logged(S.hist, S.hist.conns + 1, Cardinality(DOMAIN S.clients), TRUE, TRUE))

RECURSIVE handle_new_connection(_, _)
\* the accept loop; accepts lists, per waiting connection, the results of
\* set_nonblocking and epoll_ctl, and accept then reports EWOULDBLOCK
handle_new_connection(S, accepts) ==
    IF accepts = <<>> THEN S
    ELSE handle_new_connection(AcceptOne(S, Head(accepts)[1], Head(accepts)[2]), Tail(accepts))

close_client_connection(S, client_sock) ==
    IF client_sock \notin DOMAIN S.clients THEN S
    ELSE ChatState(
             EraseClient(S.clients, client_sock),
             [x \in DOMAIN S.socks \ {client_sock} |-> S.socks[x]],
             S.epoll \ {client_sock},
             S.sent \o broadcast_message(EraseClient(S.clients, client_sock), 0 - 1,
                           [kind |-> "leave", nickname |-> S.clients[client_sock].nickname]),
             [S.hist EXCEPT !.left = Append(@, S.socks[client_sock])])

RECURSIVE ReadAll(_, _)
\* the recv loop of handle_client_message over the results recv gives:
\* yields <<keep_alive, number of chunks in full_message>>
ReadAll(reads, chunks) ==
    IF reads = <<>> \/ Head(reads) = "EWOULDBLOCK" THEN <<TRUE, chunks>>
    ELSE IF Head(reads) = "data" THEN ReadAll(Tail(reads), chunks + 1)
    ELSE IF Head(reads) = "EINTR" THEN ReadAll(Tail(reads), chunks)
    ELSE <<FALSE, chunks>>

\* handle_client_message: yields <<keep_alive, state>>
handle_client_message(S, client_sock, reads) ==
    IF ~ReadAll(reads, 0)[1] THEN <<FALSE, S>>
    ELSE IF ReadAll(reads, 0)[2] > 0 /\ client_sock \in DOMAIN S.clients
    THEN <<TRUE, [S EXCEPT !.sent = @ \o broadcast_message(S.clients, client_sock,
                     [kind |-> "chat", nickname |-> S.clients[client_sock].nickname])]>>
    ELSE <<TRUE, S>>

\* main, the branch for a client fd: events has the EPOLLERR | EPOLLHUP and
\* EPOLLIN bits
ClientEventResult(S, fd, error, readable, reads) ==
    IF error THEN close_client_connection(S, fd)
    ELSE IF readable
    THEN IF handle_client_message(S, fd, reads)[1]
         THEN handle_client_message(S, fd, reads)[2]
         ELSE close_client_connection(handle_client_message(S, fd, reads)[2], fd)
    ELSE S

\* the state a handler starts from: nothing sent yet
Current(op) ==
    ChatState(g_clients, chat_socks, chat_epoll, <<>>, [chat_hist EXCEPT !.op = op])

Becomes(S) ==
    /\ g_clients' = S.clients
    /\ chat_socks' = S.socks
    /\ chat_epoll' = S.epoll
    /\ chat_sent' = S.sent
    /\ chat_hist' = S.hist

ChatHarnessIdle ==
    UNCHANGED <<tracker_vars, script_vars, canon_vars, order_vars, p2p_vars, ftp_vars,
                peer_vars, sess_vars>>

\* main, Case 1: the listening socket is readable
NewConnectionEvent(accepts) ==
    /\ chat_hist.conns + Len(accepts) <= MaxConns
    /\ Becomes(handle_new_connection(Current("accept"), accepts))
    /\ ChatHarnessIdle

\* main, Case 2: a registered client socket has an event
ClientEvent(fd, error, readable, reads) ==
    /\ fd \in chat_epoll
    /\ error \/ readable
    /\ Becomes(ClientEventResult(Current("client"), fd, error, readable, reads))
    /\ ChatHarnessIdle

AcceptResults == BOOLEAN \X BOOLEAN

AcceptBatches == UNION {[1..n -> AcceptResults] : n \in 0..MaxAccepts}

ReadResults ==
    {<<"EWOULDBLOCK">>, <<"data", "EWOULDBLOCK">>, <<"EINTR", "data", "EWOULDBLOCK">>,
     <<"eof">>, <<"data", "eof">>, <<"error">>}

InitChat ==
    /\ TrackerIdle /\ ScriptIdle /\ CanonIdle /\ OrderIdle /\ P2pIdle /\ FtpIdle
    /\ PeerIdle /\ SessIdle
    /\ g_clients = <<>>
    /\ chat_socks = <<>>
    /\ chat_epoll = {}
    /\ chat_sent = <<>>
    /\ chat_hist = [op |-> "", conns |-> 0, log |-> <<>>, left |-> <<>>]

NextChat ==
    \/ \E accepts \in AcceptBatches : NewConnectionEvent(accepts)
    \/ \E fd \in ClientFds, error \in BOOLEAN, readable \in BOOLEAN, reads \in ReadResults :
          ClientEvent(fd, error, readable, reads)

SpecChat == InitChat /\ [][NextChat]_vars

\* connection conn has no open socket
Closed(conn) == \A fd \in DOMAIN chat_socks : chat_socks[fd] # conn

\* C33: g_clients never holds more than MAX_CLIENTS entries; a connection
\* accepted while the table was full, or whose set_nonblocking or epoll_ctl
\* failed, is closed and is neither in g_clients nor registered with epoll;
\* the table, the open sockets and the epoll set hold the same fds.
C33_ClientCap ==
    /\ Cardinality(DOMAIN g_clients) <= MAX_CLIENTS
    /\ DOMAIN g_clients = DOMAIN chat_socks
    /\ chat_epoll = DOMAIN chat_socks
    /\ \A conn \in 1..chat_hist.conns :
          \/ chat_hist.log[conn].online >= MAX_CLIENTS
          \/ ~chat_hist.log[conn].nonblocking
          \/ ~chat_hist.log[conn].registered
          => Closed(conn)

\* the table is full and the connection accepted last was turned away
C33_Witness ==
    /\ Cardinality(DOMAIN g_clients) = MAX_CLIENTS
    /\ chat_hist.conns > MAX_CLIENTS
    /\ chat_hist.log[chat_hist.conns].online >= MAX_CLIENTS
    /\ \E k \in 1..Len(chat_sent) : chat_sent[k].message.kind = "full"

\* how many of the sends of message m made with `online` clients in the
\* table went to fd
SendsTo(sent, fd, m, online) ==
    Cardinality({k \in 1..Len(sent) :
                    sent[k].fd = fd /\ sent[k].message = m /\ sent[k].online = online})

\* C34: broadcast_message(sender_fd, msg) calls send exactly once for every
\* client in g_clients except sender_fd and for no one else; so in what a
\* handler sent, a chat message or join notice of a client went once to each
\* other client in the table and not to that client, and a leave notice went
\* once to each client left in the table, the departed one not among them.
C34_Broadcast ==
    /\ \A sender_fd \in ClientFds \cup {0 - 1}, fd \in ClientFds \cup {0 - 1} :
          SendsTo(broadcast_message(g_clients, sender_fd, "msg"), fd, "msg", DOMAIN g_clients)
              = IF fd \in DOMAIN g_clients /\ fd # sender_fd THEN 1 ELSE 0
    /\ \A sender_fd \in ClientFds \cup {0 - 1} :
          Len(broadcast_message(g_clients, sender_fd, "msg"))
              = Cardinality(DOMAIN g_clients \ {sender_fd})
    /\ \A k \in 1..Len(chat_sent) :
          chat_sent[k].message.kind \in {"chat", "join", "leave"} =>
              /\ \A fd \in ClientFds :
                    SendsTo(chat_sent, fd, chat_sent[k].message, chat_sent[k].online)
                        = IF fd \in chat_sent[k].online /\ fd # chat_sent[k].message.nickname
                          THEN 1 ELSE 0
              /\ chat_sent[k].message.kind = "leave" =>
                    /\ chat_sent[k].message.nickname \notin chat_sent[k].online
                    /\ chat_sent[k].online = DOMAIN g_clients
              /\ chat_sent[k].message.kind \in {"chat", "join"} =>
                    chat_sent[k].message.nickname \in chat_sent[k].online
              /\ chat_sent[k].message.kind = "chat" => chat_sent[k].online = DOMAIN g_clients

\* a chat message went out while two clients were in the table
C34_Witness ==
    /\ Cardinality(DOMAIN g_clients) >= 2
    /\ \E k \in 1..Len(chat_sent) : chat_sent[k].message.kind = "chat"

\* the server state between two handlers
Between == ChatState(g_clients, chat_socks, chat_epoll, <<>>, chat_hist)

\* C35: after close_client_connection(fd) the fd is not in g_clients; for an
\* fd that is not in g_clients the call changes nothing and sends nothing; and
\* no connection has more than one leave notice, each being for a connection
\* that is closed.
C35_DisconnectIdempotent ==
    /\ \A fd \in ClientFds \cup {0 - 1} :
          /\ fd \notin DOMAIN close_client_connection(Between, fd).clients
          /\ fd \notin DOMAIN g_clients => close_client_connection(Between, fd) = Between
          /\ close_client_connection(close_client_connection(Between, fd), fd)
                = close_client_connection(Between, fd)
    /\ \A i \in 1..Len(chat_hist.left), j \in 1..Len(chat_hist.left) :
          i # j => chat_hist.left[i] # chat_hist.left[j]
    /\ \A i \in 1..Len(chat_hist.left) : Closed(chat_hist.left[i])

\* a client has left, its notice went to the one that stayed, and its fd is free
C35_Witness ==
    /\ chat_hist.left # <<>>
    /\ g_clients # <<>>
    /\ \E k \in 1..Len(chat_sent) :
          /\ chat_sent[k].message.kind = "leave"
          /\ chat_sent[k].message.nickname \notin DOMAIN g_clients

====
